---- MODULE Spec2Model ----
(***************************************************************************)
(* A model of the GCP network planner backend: the scan pipeline of         *)
(* gcp_scanner.py (discovery, per-project fan-out, join, address merge),    *)
(* the scan lifecycle of main.py / scan_manager.py, and the resource        *)
(* scanners under scanners/.                                                *)
(***************************************************************************)
EXTENDS Integers, Sequences, FiniteSets, TLC

(***************************************************************************)
(* Bounds of the model.                                                     *)
(***************************************************************************)
NumProjects == 2
NumFolders == 2
MaxIds == 2
MaxFailures == 3

(***************************************************************************)
(* Generic helpers.                                                         *)
(***************************************************************************)
RECURSIVE SeqOfSet(_)
SeqOfSet(S) ==
    IF S = {} THEN <<>>
    ELSE LET m == CHOOSE x \in S : \A y \in S : x <= y
         IN <<m>> \o SeqOfSet(S \ {m})

RECURSIVE SumSeq(_)
SumSeq(s) == IF s = <<>> THEN 0 ELSE Head(s) + SumSeq(Tail(s))

RECURSIVE Flatten(_)
Flatten(ss) == IF ss = <<>> THEN <<>> ELSE Head(ss) \o Flatten(Tail(ss))

SeqsUpTo(S, n) == UNION {[1..k -> S] : k \in 0..n}

Range(s) == {s[i] : i \in DOMAIN s}

(***************************************************************************)
(* The provider: what the resource manager and compute APIs hold.           *)
(* Project 0 exists but is not ACTIVE; folders form a binary tree rooted    *)
(* at folder 1.                                                             *)
(***************************************************************************)
Projects == 1..NumProjects
ProviderProjects == 0..NumProjects
Folders == 1..NumFolders
RootFolder == 1

ProjectActive(p) == p # 0
FolderOf(p) == IF p = 0 THEN RootFolder ELSE ((p - 1) % NumFolders) + 1
ChildFolders(f) == {2 * f, 2 * f + 1} \cap Folders
IsXpnHost(p) == p = 1

\* networks the provider holds for project p: project p has p networks
ProviderNetworks(p) ==
    [i \in 1..p |-> [name |-> <<"net", p, i>>, self_link |-> <<"link", p, i>>]]

\* subnets the provider holds for project p (aggregated over all regions):
\* network i of the project has i subnets
ProviderSubnets(p) ==
    Flatten([i \in 1..p |->
        [j \in 1..i |-> [name |-> <<"sub", p, i, j>>,
                         network |-> <<"link", p, i>>]]])

(***************************************************************************)
(* Account discovery (gcp_scanner.py).                                      *)
(***************************************************************************)
FolderOutcomes == {"ok", "projects_fail", "folders_fail"}

\* the ACTIVE projects directly under folder f, in listing order
ActiveProjectsIn(f) ==
    SeqOfSet({p \in ProviderProjects : FolderOf(p) = f /\ ProjectActive(p)})

RECURSIVE _list_projects_in_folder(_, _)
_list_projects_in_folder(f, denv) ==
    IF denv.folder[f] = "projects_fail" THEN <<>>
    ELSE IF denv.folder[f] = "folders_fail" THEN ActiveProjectsIn(f)
    ELSE LET subs == SeqOfSet(ChildFolders(f))
         IN ActiveProjectsIn(f) \o
            Flatten([i \in 1..Len(subs) |-> _list_projects_in_folder(subs[i], denv)])

\* search_projects: every ACTIVE project the query reaches
SearchActive(denv) ==
    IF denv.search = "ok"
    THEN SeqOfSet({p \in ProviderProjects : ProjectActive(p)})
    ELSE <<>>

_list_projects_in_organization(denv) == SearchActive(denv)

_list_all_accessible_projects(denv) == SearchActive(denv)

\* source_id of kind "project": comma-separated tokens; a token is a
\* sequence of characters, each the blank or the one-character name of a
\* project
Blank == 0

RECURSIVE Strip(_)
Strip(t) ==
    IF t = <<>> THEN <<>>
    ELSE IF Head(t) = Blank THEN Strip(Tail(t))
    ELSE IF t[Len(t)] = Blank THEN Strip(SubSeq(t, 1, Len(t) - 1))
    ELSE t

RECURSIVE SplitProjectIds(_)
SplitProjectIds(tokens) ==
    IF tokens = <<>> THEN <<>>
    ELSE LET s == Strip(Head(tokens))
         IN (IF s = <<>> THEN <<>> ELSE <<s[1]>>) \o SplitProjectIds(Tail(tokens))

ValidSourceTypes == {"folder", "organization", "project", "all_accessible"}
SourceTypes == ValidSourceTypes \cup {"region"}

\* lines 141-160 of scan_network_topology: the ids handed to _scan_projects,
\* or the ValueError of the else branch
ResolveProjectIds(st, sid, denv) ==
    IF st = "folder"
        THEN [raised |-> "None", value |-> _list_projects_in_folder(sid, denv)]
    ELSE IF st = "organization"
        THEN [raised |-> "None", value |-> _list_projects_in_organization(denv)]
    ELSE IF st = "project"
        THEN [raised |-> "None", value |-> SplitProjectIds(sid)]
    ELSE IF st = "all_accessible"
        THEN [raised |-> "None", value |-> _list_all_accessible_projects(denv)]
    ELSE [raised |-> "ValueError", value |-> <<>>]

(***************************************************************************)
(* The per-project scan (gcp_scanner.py).  env names the outcome of each    *)
(* provider call the scan of one project makes.                             *)
(***************************************************************************)
ClientOutcomes == {"ok", "PermissionDenied", "NotFound", "Error"}
ListOutcomes == {"ok", "PermissionDenied", "Error"}

\* a call that is never reached has outcome "ok"
ScanEnvs ==
    {e \in [info : {"ok", "fail"}, xpn : {"ok", "fail"}, client : ClientOutcomes,
            net_list : ListOutcomes, sub_list : ListOutcomes] :
        /\ (e.client # "ok" => e.net_list = "ok")
        /\ (e.net_list # "ok" => e.sub_list = "ok")
        /\ e.sub_list # "PermissionDenied"}

\* the number of provider calls that fail under env
FailCount(env) ==
    Cardinality({c \in {"info", "xpn", "client", "net_list", "sub_list"} : env[c] # "ok"})

AllOkEnv ==
    [info |-> "ok", xpn |-> "ok", client |-> "ok", net_list |-> "ok", sub_list |-> "ok"]

_get_project_info(p, env) ==
    IF env.info = "ok"
    THEN [some |-> TRUE, display_name |-> <<"display", p>>,
          project_number |-> <<"number", p>>]
    ELSE [some |-> FALSE, display_name |-> <<>>, project_number |-> <<>>]

_get_shared_vpc_info(p, env) ==
    [is_host |-> (env.xpn = "ok" /\ IsXpnHost(p)), host_project |-> "None"]

_list_subnets(p, network_self_link, env) ==
    IF env.sub_list # "ok" THEN <<>>
    ELSE SelectSeq(ProviderSubnets(p), LAMBDA s : s.network = network_self_link)

\* raises when the NetworksClient cannot be created (line 1018, outside the
\* try); a failed listing is logged and gives the empty list
_list_vpc_networks(p, include_shared_vpc, env) ==
    IF env.client # "ok" THEN [raised |-> env.client, value |-> <<>>]
    ELSE IF env.net_list # "ok" THEN [raised |-> "None", value |-> <<>>]
    ELSE [raised |-> "None",
          value |-> [i \in 1..Len(ProviderNetworks(p)) |->
              [name |-> ProviderNetworks(p)[i].name,
               self_link |-> ProviderNetworks(p)[i].self_link,
               project_id |-> p,
               is_shared_vpc_host |-> include_shared_vpc,
               subnets |-> _list_subnets(p, ProviderNetworks(p)[i].self_link, env)]]]

_scan_single_project(p, include_shared_vpc, env) ==
    LET info == _get_project_info(p, env)
        xpn == _get_shared_vpc_info(p, env)
        nets == _list_vpc_networks(p, include_shared_vpc, env)
        project ==
            [project_id |-> p,
             project_name |-> IF info.some THEN info.display_name ELSE <<"id", p>>,
             project_number |-> IF info.some THEN info.project_number ELSE <<>>,
             is_shared_vpc_host |-> include_shared_vpc /\ xpn.is_host,
             vpc_networks |-> <<>>,
             scan_status |-> "pending",
             error_message |-> "None"]
    IN IF nets.raised = "None"
           THEN [project EXCEPT !.vpc_networks = nets.value,
                                !.scan_status = "success"]
       ELSE IF nets.raised = "PermissionDenied"
           THEN [project EXCEPT !.scan_status = "permission_denied",
                                !.error_message = "Permission denied"]
       ELSE IF nets.raised = "NotFound"
           THEN [project EXCEPT !.scan_status = "error",
                                !.error_message = "Project not found"]
       ELSE [project EXCEPT !.scan_status = "error",
                            !.error_message = "str(e)"]

(***************************************************************************)
(* Address signals of the compute API and their merge into one record per   *)
(* IP literal (gcp_scanner.py, _collect_public_ips / _collect_internal_ips).*)
(* A map is a Python dict: a sequence of records in insertion order, keyed  *)
(* by ip_address.                                                           *)
(***************************************************************************)
NoIp == 0

MapHas(map, ip) == \E i \in DOMAIN map : map[i].ip_address = ip

MapIndex(map, ip) == CHOOSE i \in DOMAIN map : map[i].ip_address = ip

MapGet(map, ip) == map[MapIndex(map, ip)]

\* a list the record is appended to, in place of a dict keyed by ip_address
MapSet_AlwaysAppend(map, rec) ==
    Append(map, rec)

\* map[rec.ip_address] = rec
MapSet(map, rec) ==
    IF MapHas(map, rec.ip_address)
    THEN [map EXCEPT ![MapIndex(map, rec.ip_address)] = rec]
    ELSE Append(map, rec)

\* the object _resolve_lb_details returns for a forwarding rule (it catches
\* every error and always returns a LoadBalancerDetails)
_resolve_lb_details(rule, p) == <<"details", rule.name>>

External(rule) == rule.load_balancing_scheme \in {"EXTERNAL", "EXTERNAL_MANAGED"}

Internal(rule) ==
    rule.load_balancing_scheme \in {"INTERNAL", "INTERNAL_MANAGED", "INTERNAL_SELF_MANAGED"}

\* lines 337-365: a regional static address
PublicRegionalAddress(map, addr, p) ==
    IF addr.address_type # "EXTERNAL" THEN map
    ELSE LET user == IF addr.users # <<>> THEN addr.users[1].kind ELSE "none"
             resource_type ==
                 IF user = "forwardingRules" THEN "LoadBalancer"
                 ELSE IF user = "instances" THEN "VM"
                 ELSE IF user = "routers" THEN "CloudNAT"
                 ELSE IF user = "none" /\ addr.status = "RESERVED" THEN "Unused Address"
                 ELSE "Static Address"
             resource_name ==
                 IF user \in {"forwardingRules", "instances", "routers"}
                 THEN addr.users[1].name ELSE addr.name
         IN MapSet(map, [ip_address |-> addr.address,
                         resource_type |-> resource_type,
                         resource_name |-> resource_name,
                         project_id |-> p,
                         region |-> addr.region,
                         status |-> addr.status,
                         description |-> addr.description,
                         labels |-> {},
                         details |-> <<>>,
                         zone |-> ""])

\* lines 368-388: a global static address
PublicGlobalAddress(map, addr, p) ==
    IF addr.address_type # "EXTERNAL" THEN map
    ELSE LET user == IF addr.users # <<>> THEN addr.users[1].kind ELSE "none"
             resource_type ==
                 IF user = "forwardingRules" THEN "Global LoadBalancer"
                 ELSE IF user = "none" /\ addr.status = "RESERVED"
                     THEN "Unused Global Address"
                 ELSE "Global Address"
             resource_name ==
                 IF user = "forwardingRules" THEN addr.users[1].name ELSE addr.name
         IN MapSet(map, [ip_address |-> addr.address,
                         resource_type |-> resource_type,
                         resource_name |-> resource_name,
                         project_id |-> p,
                         region |-> "global",
                         status |-> addr.status,
                         description |-> addr.description,
                         labels |-> {},
                         details |-> <<>>,
                         zone |-> ""])

\* lines 406-421 and 438-448: a forwarding rule whose IP is already in the map
MergeForwardingRule(existing, rule, p, static_type, lb_type) ==
    [existing EXCEPT
        !.description = IF existing.description = "" /\ rule.description # ""
                        THEN rule.description ELSE @,
        !.labels = IF rule.labels # {} THEN rule.labels ELSE @,
        !.details = IF existing.details = <<>>
                    THEN _resolve_lb_details(rule, p) ELSE @,
        !.resource_type = IF existing.resource_type = static_type
                          THEN lb_type ELSE @]

\* lines 403-433 (regional) and 436-460 (global): a forwarding rule
PublicForwardingRule(map, rule, p, region, static_type, lb_type) ==
    IF ~(External(rule) /\ rule.I_p_address # NoIp) THEN map
    ELSE IF MapHas(map, rule.I_p_address)
        THEN MapSet(map, MergeForwardingRule(MapGet(map, rule.I_p_address),
                                             rule, p, static_type, lb_type))
    ELSE MapSet(map, [ip_address |-> rule.I_p_address,
                      resource_type |-> lb_type,
                      resource_name |-> rule.name,
                      project_id |-> p,
                      region |-> region,
                      status |-> "IN_USE",
                      description |-> rule.description,
                      labels |-> rule.labels,
                      details |-> _resolve_lb_details(rule, p),
                      zone |-> ""])

PublicRegionalForwardingRule(map, rule, p) ==
    PublicForwardingRule(map, rule, p, rule.region, "Static Address", "LoadBalancer")

PublicGlobalForwardingRule(map, rule, p) ==
    PublicForwardingRule(map, rule, p, "global", "Global Address", "Global LoadBalancer")

\* lines 489-495: a NAT IP that is already in the map
MergeAccessConfig(existing, instance) ==
    IF existing.resource_type \in {"Static Address", "VM"}
    THEN [existing EXCEPT !.resource_type = "VM",
                          !.resource_name = instance.name,
                          !.zone = instance.zone]
    ELSE existing

\* lines 473-495: one access config of one interface of a VM instance
PublicAccessConfig(map, instance, p) ==
    IF instance.nat_i_p = NoIp THEN map
    ELSE IF ~MapHas(map, instance.nat_i_p)
        THEN MapSet(map, [ip_address |-> instance.nat_i_p,
                          resource_type |-> "VM",
                          resource_name |-> instance.name,
                          project_id |-> p,
                          region |-> instance.region,
                          status |-> "IN_USE",
                          description |-> "",
                          labels |-> {},
                          details |-> <<>>,
                          zone |-> instance.zone])
    ELSE MapSet(map, MergeAccessConfig(MapGet(map, instance.nat_i_p), instance))

\* one signal of the compute API applied to public_ips_map, by its kind
PublicSignal(map, sig, p) ==
    IF sig.kind = "address" THEN PublicRegionalAddress(map, sig, p)
    ELSE IF sig.kind = "global_address" THEN PublicGlobalAddress(map, sig, p)
    ELSE IF sig.kind = "forwarding_rule" THEN PublicRegionalForwardingRule(map, sig, p)
    ELSE IF sig.kind = "global_forwarding_rule" THEN PublicGlobalForwardingRule(map, sig, p)
    ELSE PublicAccessConfig(map, sig, p)

\* the last path component of a network or subnetwork link ("" when blank)
LastPart(link) == IF link = <<>> THEN "" ELSE link[Len(link)]

\* lines 537-564: a regional static address, internal flavour
InternalRegionalAddress(map, addr, p) ==
    IF addr.address_type # "INTERNAL" THEN map
    ELSE LET user == IF addr.users # <<>> THEN addr.users[1].kind ELSE "none"
             resource_type ==
                 IF user = "forwardingRules" THEN "ForwardingRule"
                 ELSE IF user = "instances" THEN "VM"
                 ELSE "Static Address"
             resource_name ==
                 IF user \in {"forwardingRules", "instances"}
                 THEN addr.users[1].name ELSE addr.name
         IN MapSet(map, [ip_address |-> addr.address,
                         resource_type |-> resource_type,
                         resource_name |-> resource_name,
                         project_id |-> p,
                         vpc |-> LastPart(addr.network),
                         subnet |-> LastPart(addr.subnetwork),
                         region |-> addr.region])

\* lines 577-592: an internal forwarding rule is added only when its IP is new
InternalForwardingRule(map, rule, p) ==
    IF ~(Internal(rule) /\ rule.I_p_address # NoIp) THEN map
    ELSE IF MapHas(map, rule.I_p_address) THEN map
    ELSE MapSet(map, [ip_address |-> rule.I_p_address,
                      resource_type |-> "ForwardingRule",
                      resource_name |-> rule.name,
                      project_id |-> p,
                      vpc |-> LastPart(rule.network),
                      subnet |-> LastPart(rule.subnetwork),
                      region |-> rule.region])

\* lines 605-627: one network interface of a VM instance
InternalInterface(map, instance, p) ==
    IF instance.network_i_p = NoIp THEN map
    ELSE IF ~MapHas(map, instance.network_i_p)
        THEN MapSet(map, [ip_address |-> instance.network_i_p,
                          resource_type |-> "VM",
                          resource_name |-> instance.name,
                          project_id |-> p,
                          vpc |-> LastPart(instance.network),
                          subnet |-> LastPart(instance.subnetwork),
                          region |-> instance.region])
    ELSE LET existing == MapGet(map, instance.network_i_p)
         IN IF existing.resource_type = "Static Address"
            THEN MapSet(map, [existing EXCEPT !.resource_type = "VM",
                                              !.resource_name = instance.name])
            ELSE map

\* one signal applied to internal_ips_map; _collect_internal_ips lists no
\* global addresses and no global forwarding rules
InternalSignal(map, sig, p) ==
    IF sig.kind = "address" THEN InternalRegionalAddress(map, sig, p)
    ELSE IF sig.kind = "forwarding_rule" THEN InternalForwardingRule(map, sig, p)
    ELSE IF sig.kind = "instance" THEN InternalInterface(map, sig, p)
    ELSE map

(***************************************************************************)
(* What the compute API holds for the projects of a whole scan: for project *)
(* p a reserved external address p that a forwarding rule also carries, and *)
(* one VM whose NAT IP and internal IP are the same literals in every       *)
(* project.                                                                 *)
(***************************************************************************)
SharedNatIp == NumProjects + 1
SharedInternalIp == NumProjects + 2

ProviderSignals(p) ==
    << [kind |-> "address", address |-> p, name |-> <<"addr", p>>,
        address_type |-> "EXTERNAL", users |-> <<>>, status |-> "RESERVED",
        description |-> "", region |-> "r1", network |-> <<>>, subnetwork |-> <<>>],
       [kind |-> "forwarding_rule", I_p_address |-> p, name |-> <<"fr", p>>,
        load_balancing_scheme |-> "EXTERNAL", description |-> "front",
        labels |-> {"app"}, region |-> "r1", network |-> <<>>, subnetwork |-> <<>>],
       [kind |-> "instance", name |-> <<"vm", p>>, zone |-> "r1-a", region |-> "r1",
        nat_i_p |-> SharedNatIp, network_i_p |-> SharedInternalIp,
        network |-> <<"networks", "default">>,
        subnetwork |-> <<"subnetworks", "default">>] >>

ProviderFirewalls(p) == << [name |-> <<"fw", p>>, project_id |-> p] >>

ProviderPolicies(p) ==
    IF p = 1 THEN << [name |-> <<"armor", p>>, project_id |-> p] >> ELSE <<>>

\* the signals of one project applied in listing order; an exception after
\* n signals ends the project and keeps what was merged so far
RECURSIVE ApplySignals(_, _, _, _, _)
ApplySignals(map, sigs, p, public, n) ==
    IF n = 0 \/ sigs = <<>> THEN map
    ELSE ApplySignals(IF public THEN PublicSignal(map, Head(sigs), p)
                      ELSE InternalSignal(map, Head(sigs), p),
                      Tail(sigs), p, public, n - 1)

\* the loop over projects of _collect_public_ips / _collect_internal_ips:
\* projects that are not "success" are skipped; cenv[p] = "fail" makes the
\* first compute call for project p raise
\* mutant: the loop without the `scan_status != "success": continue` guard
RECURSIVE CollectIps_NoSkip(_, _, _, _)
CollectIps_NoSkip(map, projects, cenv, public) ==
    IF projects = <<>> THEN map
    ELSE LET p == Head(projects).project_id
         IN CollectIps_NoSkip(
                ApplySignals(map, ProviderSignals(p), p, public,
                             IF cenv[p] = "ok" THEN Len(ProviderSignals(p)) ELSE 0),
                Tail(projects), cenv, public)

RECURSIVE CollectIps(_, _, _, _)
CollectIps(map, projects, cenv, public) ==
    IF projects = <<>> THEN map
    ELSE LET project == Head(projects)
             p == project.project_id
             next ==
                 IF project.scan_status # "success" THEN map
                 ELSE ApplySignals(map, ProviderSignals(p), p, public,
                                   IF cenv[p] = "ok" THEN Len(ProviderSignals(p)) ELSE 0)
         IN CollectIps(next, Tail(projects), cenv, public)

_collect_public_ips(projects, cenv) == CollectIps(<<>>, projects, cenv, TRUE)

_collect_internal_ips(projects, cenv) == CollectIps(<<>>, projects, cenv, FALSE)

\* _collect_firewall_rules / _collect_cloud_armor_policies
RECURSIVE CollectLists(_, _, _)
CollectLists(projects, cenv, firewalls) ==
    IF projects = <<>> THEN <<>>
    ELSE LET project == Head(projects)
             p == project.project_id
             own == IF project.scan_status # "success" \/ cenv[p] # "ok" THEN <<>>
                    ELSE IF firewalls THEN ProviderFirewalls(p)
                    ELSE ProviderPolicies(p)
         IN own \o CollectLists(Tail(projects), cenv, firewalls)

_collect_firewall_rules(projects, cenv) == CollectLists(projects, cenv, TRUE)

_collect_cloud_armor_policies(projects, cenv) == CollectLists(projects, cenv, FALSE)

(***************************************************************************)
(* scan_network_topology, lines 164-199: the statistics and the Topology,   *)
(* and the except handler.                                                  *)
(***************************************************************************)
CountSubnets(project) ==
    SumSeq([i \in DOMAIN project.vpc_networks |-> Len(project.vpc_networks[i].subnets)])

NotSuccess(project) == project.scan_status # "success"

failed_projects_of(projects) ==
    Cardinality({i \in DOMAIN projects : NotSuccess(projects[i])})

NetworkTopology(st, sid, projects, cenv) ==
    [kind |-> "topology",
     raised |-> "None",
     source_type |-> st,
     source_id |-> sid,
     projects |-> projects,
     total_projects |-> Len(projects),
     total_vpcs |-> SumSeq([i \in DOMAIN projects |-> Len(projects[i].vpc_networks)]),
     total_subnets |-> SumSeq([i \in DOMAIN projects |-> CountSubnets(projects[i])]),
     failed_projects |-> failed_projects_of(projects),
     public_ips |-> _collect_public_ips(projects, cenv),
     used_internal_ips |-> _collect_internal_ips(projects, cenv),
     firewall_rules |-> _collect_firewall_rules(projects, cenv),
     cloud_armor_policies |-> _collect_cloud_armor_policies(projects, cenv)]

\* line 197-199: the handler logs the error and then evaluates the name
\* `raisesources`, which is not defined: whatever was caught, what leaves
\* scan_network_topology is a NameError
ExceptHandler(caught) == "NameError"

Raised(exc) ==
    [kind |-> "raised", raised |-> exc, source_type |-> "", source_id |-> <<>>,
     projects |-> <<>>, total_projects |-> 0, total_vpcs |-> 0, total_subnets |-> 0,
     failed_projects |-> 0, public_ips |-> <<>>, used_internal_ips |-> <<>>,
     firewall_rules |-> <<>>, cloud_armor_policies |-> <<>>]

\* scan_network_topology as one function of its arguments and of the outcome
\* of every provider call, the futures being joined in submission order
scan_network_topology(st, sid, include, denv, env_of, cenv) ==
    LET ids == ResolveProjectIds(st, sid, denv)
    IN IF ids.raised # "None" THEN Raised(ExceptHandler(ids.raised))
       ELSE NetworkTopology(st, sid,
                [i \in DOMAIN ids.value |->
                    _scan_single_project(ids.value[i], include, env_of[ids.value[i]])],
                cenv)

(***************************************************************************)
(* The snapshot store (scan_manager.py).  A stored dict is a record; a      *)
(* missing key is "None", <<>> or NoTimestamp.  A timestamp is a datetime   *)
(* object in memory and an ISO string once it went through JSON.            *)
(***************************************************************************)
MaxScans == 2
MaxDiskFailures == 1

NoScan == 0 - 1
OldScan == 0
NewScans == 1..MaxScans

NoTimestamp == [type |-> "None", t |-> 0]
Datetime(t) == [type |-> "datetime", t |-> t]
IsoString(t) == [type |-> "str", t |-> t]

\* data.get("topology", {}).get("scan_timestamp") if "topology" in data
\* else data.get("timestamp")
TimestampOf(data) ==
    IF data.topology # <<>> THEN data.topology[1].scan_timestamp ELSE NoTimestamp

\* lines 76-83: the metadata save_scan and load_scans keep for a scan
Metadata(scan_id, data) ==
    [scan_id |-> scan_id,
     status |-> data.status,
     timestamp |-> TimestampOf(data),
     source_type |-> IF data.topology # <<>> THEN data.topology[1].source_type
                     ELSE "unknown",
     total_projects |-> IF data.topology # <<>> THEN data.topology[1].total_projects
                        ELSE data.total_projects]

\* json.dumps(data, default=json_serial) followed by json.loads: datetimes
\* come back as ISO strings
JsonRoundTrip(data) ==
    IF data.topology # <<>> /\ data.topology[1].scan_timestamp.type = "datetime"
    THEN [data EXCEPT !.topology =
             <<[data.topology[1] EXCEPT
                   !.scan_timestamp = IsoString(data.topology[1].scan_timestamp.t)]>>]
    ELSE data

\* a >= b of Python: defined between two datetimes or between two strings
Comparable(a, b) == a.type = b.type /\ a.type # "None"

Put(f, k, v) == [x \in DOMAIN f \cup {k} |-> IF x = k THEN v ELSE f[x]]

\* lines 87-93: the new value of latest_completed_scan_id, or the TypeError
\* of comparing a datetime with a string
CheckLatest(metadata, latest, scan_id) ==
    LET meta == metadata[scan_id]
    IN IF meta.status # "completed" THEN [raised |-> FALSE, latest |-> latest]
       ELSE IF latest = NoScan THEN [raised |-> FALSE, latest |-> scan_id]
       ELSE IF latest \notin DOMAIN metadata THEN [raised |-> FALSE, latest |-> scan_id]
       ELSE IF meta.timestamp.type = "None" THEN [raised |-> FALSE, latest |-> latest]
       ELSE IF ~Comparable(meta.timestamp, metadata[latest].timestamp)
           THEN [raised |-> TRUE, latest |-> latest]
       ELSE IF meta.timestamp.t >= metadata[latest].timestamp.t
           THEN [raised |-> FALSE, latest |-> scan_id]
       ELSE [raised |-> FALSE, latest |-> latest]

\* save_scan with the cache updated only after the file is written
save_scan_CacheAfterWrite(store, scan_id, data, disk_ok) ==
    LET metadata1 == Put(store.metadata, scan_id, Metadata(scan_id, data))
        chk == CheckLatest(metadata1, store.latest, scan_id)
    IN IF chk.raised \/ ~disk_ok
           THEN [cache |-> store.cache, metadata |-> metadata1,
                 latest |-> chk.latest, disk |-> store.disk]
       ELSE [cache |-> Put(store.cache, scan_id, JsonRoundTrip(data)),
             metadata |-> metadata1,
             latest |-> chk.latest,
             disk |-> Put(store.disk, scan_id, JsonRoundTrip(data))]

\* save_scan(scan_id, data): the store after the call.  disk_ok says whether
\* writing the file succeeds; every exception is caught and logged (line 112)
save_scan(store, scan_id, data, disk_ok) ==
    LET cache1 == Put(store.cache, scan_id, data)
        metadata1 == Put(store.metadata, scan_id, Metadata(scan_id, data))
        chk == CheckLatest(metadata1, store.latest, scan_id)
    IN IF chk.raised
           THEN [cache |-> cache1, metadata |-> metadata1,
                 latest |-> store.latest, disk |-> store.disk]
       ELSE IF ~disk_ok
           THEN [cache |-> cache1, metadata |-> metadata1,
                 latest |-> chk.latest, disk |-> store.disk]
       ELSE [cache |-> Put(cache1, scan_id, JsonRoundTrip(data)),
             metadata |-> metadata1,
             latest |-> chk.latest,
             disk |-> Put(store.disk, scan_id, JsonRoundTrip(data))]

NoData ==
    [scan_id |-> NoScan, status |-> "None", progress |-> 0,
     projects_scanned |-> 0, total_projects |-> 0, topology |-> <<>>,
     error |-> "None"]

\* get_scan(scan_id): the cached dict, else the file, else None
get_scan(store, scan_id) ==
    IF scan_id \in DOMAIN store.cache THEN store.cache[scan_id]
    ELSE IF scan_id \in DOMAIN store.disk THEN store.disk[scan_id]
    ELSE NoData

\* lines 32-62: load_scans over the files in listing order
RECURSIVE LoadFiles(_, _, _)
LoadFiles(store, disk, files) ==
    IF files = <<>> THEN store
    ELSE LET scan_id == Head(files)
             meta == Metadata(scan_id, disk[scan_id])
             metadata1 == Put(store.metadata, scan_id, meta)
             latest1 ==
                 IF meta.status = "completed" /\ meta.timestamp.type # "None"
                 THEN IF store.latest = NoScan THEN scan_id
                      ELSE IF meta.timestamp.t > metadata1[store.latest].timestamp.t
                          THEN scan_id
                      ELSE store.latest
                 ELSE store.latest
         IN LoadFiles([store EXCEPT !.metadata = metadata1, !.latest = latest1],
                      disk, Tail(files))

EmptyFunction == [x \in {} |-> 0]

\* ScanManager() followed by load_scans() on a storage directory
load_scans(disk) ==
    LoadFiles([cache |-> EmptyFunction, metadata |-> EmptyFunction,
               latest |-> NoScan, disk |-> disk],
              disk, SeqOfSet(DOMAIN disk))

\* topology.model_dump() of a Topology constructed at time now:
\* scan_timestamp is a datetime object
model_dump(topology, now) ==
    [source_type |-> topology.source_type,
     source_id |-> topology.source_id,
     scan_timestamp |-> Datetime(now),
     projects |-> topology.projects,
     total_projects |-> topology.total_projects,
     total_vpcs |-> topology.total_vpcs,
     total_subnets |-> topology.total_subnets,
     failed_projects |-> topology.failed_projects,
     public_ips |-> topology.public_ips,
     used_internal_ips |-> topology.used_internal_ips,
     firewall_rules |-> topology.firewall_rules,
     cloud_armor_policies |-> topology.cloud_armor_policies]

\* main.py 147-153: the dict start_scan saves
PendingData(scan_id) ==
    [scan_id |-> scan_id, status |-> "pending", progress |-> 0,
     projects_scanned |-> 0, total_projects |-> 0, topology |-> <<>>,
     error |-> "None"]

\* main.py 73: current_data["status"] = "running"
MarkedRunning_Unchanged(current_data) ==
    current_data

MarkedRunning(current_data) ==
    [current_data EXCEPT !.status = "running"]

\* main.py 85-92: the dict run_scan_task saves when the scan returned
ResultData_NoTopology(scan_id, dumped) ==
    [scan_id |-> scan_id, status |-> "completed", progress |-> 1,
     projects_scanned |-> dumped.total_projects,
     total_projects |-> dumped.total_projects, topology |-> <<>>,
     error |-> "None"]

ResultData(scan_id, dumped) ==
    [scan_id |-> scan_id, status |-> "completed", progress |-> 1,
     projects_scanned |-> dumped.total_projects,
     total_projects |-> dumped.total_projects, topology |-> <<dumped>>,
     error |-> "None"]

\* main.py 99-104: the dict the handler of run_scan_task saves; error is str(e)
FailedData(scan_id, e) ==
    [scan_id |-> scan_id, status |-> "failed", progress |-> 0,
     projects_scanned |-> 0, total_projects |-> 0, topology |-> <<>>,
     error |-> e]

(***************************************************************************)
(* Load balancer details (scanners/lb_scanner.py).                          *)
(***************************************************************************)
MaxCertificates == 1
MaxRoutingRules == 3

NoFrontend == <<>>

\* LoadBalancerDetails() of line 91 (models.py 93-98)
LoadBalancerDetails ==
    [frontend |-> NoFrontend, routing_rules |-> <<>>, backends |-> <<>>,
     url_map |-> "None"]

ProxyTargets ==
    {"targetHttpProxies", "targetHttpsProxies", "targetTcpProxies",
     "targetSslProxies", "none"}

\* lines 121-155: proxy_type of each kind of target
ProxyType(target, protocol) ==
    IF target = "targetHttpProxies" THEN "HTTP"
    ELSE IF target = "targetHttpsProxies" THEN "HTTPS"
    ELSE IF target = "targetTcpProxies" THEN "TCP"
    ELSE IF target = "targetSslProxies" THEN "SSL"
    ELSE protocol

\* the proxies that carry a url_map / ssl_certificates
HasUrlMap(target) == target \in {"targetHttpProxies", "targetHttpsProxies"}
HasCertificates(target) == target \in {"targetHttpsProxies", "targetSslProxies"}

\* lines 194-225: the routing rules a URL map with n services and path rules
\* yields; rules 1 and 2 name the same backend service
UrlMapRules(n) ==
    [i \in 1..n |-> [hosts |-> IF i = 1 THEN "*" ELSE "host",
                     path |-> IF i = 2 THEN "paths" ELSE "/* (Default)",
                     backend_service |-> <<"svc", (i + 1) \div 2>>]]

\* lines 185-191
LBFrontend(rule, certs) ==
    [protocol |-> ProxyType(rule.target, "TCP"),
     ip_port |-> "ip:port",
     certificate |-> IF HasCertificates(rule.target) /\ rule.certificates > 0
                     THEN <<"cert", 1>> ELSE <<>>,
     certificate_details |-> certs]

\* lines 265-268: the outer handler logs; `return details` follows
OuterHandler_Reraises(details, e) == [raised |-> e, value |-> LoadBalancerDetails]

OuterHandler(details, e) == [raised |-> "None", value |-> details]

(***************************************************************************)
(* Backend services (scanners/lb_scanner.py 309-371).  Identifiers are      *)
(* strings: sequences of tokens, joined with the token "|" into map keys.   *)
(***************************************************************************)
NumRegions == 2
NumServiceNames == 2

BsProjects == {<<"p", p>> : p \in Projects}
BsRegions == {<<"r", r>> : r \in 1..NumRegions}
Global == <<"global">>
ServiceNames == {<<"svc", n>> : n \in 1..NumServiceNames}

\* line 344: f"{project_id}|{region}|{bs.name}"
ServiceKey_WithoutRegion(project_id, region, name) ==
    project_id \o <<"|">> \o name

ServiceKey(project_id, region, name) ==
    project_id \o <<"|">> \o region \o <<"|">> \o name

\* the second pass of the per-account scan: the map from
\* account|region|backend-service-name to the IP literals of the addresses
\* whose detail references the service
BuildServiceToIps(address) ==
    [key \in {address.project_id \o <<"|">> \o address.region \o <<"|">>
                  \o address.backend_service} |-> <<address.ip_address>>]

\* service_to_ips.get(key, []) of line 345
DictGet(map, key, default) == IF key \in DOMAIN map THEN map[key] ELSE default

NoRegion == <<>>

\* _process_backend_service 340-371: the BackendService appended for bs
_process_backend_service(name, project_id, region, map) ==
    [name |-> name,
     associated_ips |-> DictGet(map, ServiceKey(project_id, region, name), <<>>),
     project_id |-> project_id,
     region |-> IF region # Global THEN region ELSE NoRegion]

\* what regions_client.list yields
ListedRegions == [r \in 1..NumRegions |-> <<"r", r>>]

\* what a listing of backend services yields: every service name, in order
ListedServices == [n \in 1..NumServiceNames |-> <<"svc", n>>]

\* the first k services of a listing, processed
ProcessedServices(k, project_id, region, map) ==
    [n \in 1..k |-> _process_backend_service(ListedServices[n], project_id, region, map)]

(***************************************************************************)
(* scan_folder and scan_project (gcp_scanner.py 45-81, 201-233): the        *)
(* entry points that build their Topology themselves.                       *)
(***************************************************************************)
\* lines 78 and 230: sum(1 for p in projects if p.scan_status == "error")
failed_projects_of_entry(projects) ==
    Cardinality({i \in DOMAIN projects : projects[i].scan_status = "error"})

\* lines 67-79 and 219-231; the flat lists keep their defaults
EntryTopology(st, sid, projects) ==
    [kind |-> "topology",
     raised |-> "None",
     source_type |-> st,
     source_id |-> sid,
     projects |-> projects,
     total_projects |-> Len(projects),
     total_vpcs |-> SumSeq([i \in DOMAIN projects |-> Len(projects[i].vpc_networks)]),
     total_subnets |-> SumSeq([i \in DOMAIN projects |-> CountSubnets(projects[i])]),
     failed_projects |-> failed_projects_of_entry(projects),
     public_ips |-> <<>>,
     used_internal_ips |-> <<>>,
     firewall_rules |-> <<>>,
     cloud_armor_policies |-> <<>>]

\* _scan_projects with the futures joined in submission order
_scan_projects(ids, include, env_of) ==
    [i \in DOMAIN ids |-> _scan_single_project(ids[i], include, env_of[ids[i]])]

scan_folder(folder_id, include, denv, env_of) ==
    EntryTopology("folder", folder_id,
                  _scan_projects(_list_projects_in_folder(folder_id, denv), include, env_of))

scan_project(project_id, include, env_of) ==
    EntryTopology("project", project_id, _scan_projects(<<project_id>>, include, env_of))

\* what a call returns whose body ends without a return statement
ReturnedNone == [Raised("None") EXCEPT !.kind = "None"]

\* lines 83-117: the topology is built and bound to a local name, and the
\* body ends there
scan_organization(org_id, include, denv, env_of) ==
    LET topology ==
            EntryTopology("organization", org_id,
                _scan_projects(_list_projects_in_organization(denv), include, env_of))
    IN ReturnedNone

(***************************************************************************)
(* CIDR arithmetic (cidr_analyzer.py, over the ipaddress module).  An       *)
(* address has AddrBits bits; a CIDR string is an address and a prefix      *)
(* length, or a string that does not parse.                                 *)
(***************************************************************************)
AddrBits == 3

RECURSIVE Pow2(_)
Pow2(n) == IF n = 0 THEN 1 ELSE 2 * Pow2(n - 1)

Addresses == 0..(Pow2(AddrBits) - 1)

Unparsable == [valid |-> FALSE, address |-> 0, prefixlen |-> 0]

Cidr(address, prefixlen) == [valid |-> TRUE, address |-> address, prefixlen |-> prefixlen]

\* every CIDR string, host bits set or not
CidrStrings == {Cidr(a, n) : a \in Addresses, n \in 0..AddrBits} \cup {Unparsable}

NotCalled == [function |-> "none", value |-> <<>>]

\* parse_cidr returned None
NoNetwork == [network_address |-> 0 - 1, prefixlen |-> 0 - 1]

\* IPv4Network(cidr, strict=False): the host bits are masked off
parse_cidr_KeepsHostBits(cidr) ==
    IF ~cidr.valid THEN NoNetwork
    ELSE [network_address |-> cidr.address, prefixlen |-> cidr.prefixlen]

parse_cidr(cidr) ==
    IF ~cidr.valid THEN NoNetwork
    ELSE [network_address |-> cidr.address - (cidr.address % Pow2(AddrBits - cidr.prefixlen)),
          prefixlen |-> cidr.prefixlen]

num_addresses(net) == Pow2(AddrBits - net.prefixlen)

broadcast_address(net) == net.network_address + num_addresses(net) - 1

\* address in net: the address masked with the netmask is the network address
InNetwork(address, net) ==
    address - (address % num_addresses(net)) = net.network_address

\* a.supernet_of(b), that is _is_subnet_of(b, a)
supernet_of(a, b) ==
    /\ a.network_address <= b.network_address
    /\ broadcast_address(a) >= broadcast_address(b)

\* a.overlaps(b)
overlaps(a, b) ==
    \/ InNetwork(a.network_address, b)
    \/ InNetwork(broadcast_address(a), b)
    \/ InNetwork(b.network_address, a)
    \/ InNetwork(broadcast_address(b), a)

\* str(network)
NetworkString(net) == Cidr(net.network_address, net.prefixlen)

\* check_cidr_overlap 18-49; the result None is "None"
check_cidr_overlap(cidr1, cidr2) ==
    LET net1 == parse_cidr(cidr1)
        net2 == parse_cidr(cidr2)
    IN IF net1 = NoNetwork \/ net2 = NoNetwork THEN "None"
       ELSE IF net1 = net2 THEN "exact"
       ELSE IF supernet_of(net1, net2) THEN "contains"
       ELSE IF supernet_of(net2, net1) THEN "contained_by"
       ELSE IF overlaps(net1, net2) THEN "partial"
       ELSE "None"

(***************************************************************************)
(* Suggestions of free blocks (cidr_analyzer.py 113-176).                   *)
(***************************************************************************)
MaxCount == 2

\* base_network.subnets(new_prefix=prefix_length): the blocks in ascending
\* order; a network of the longest prefix yields itself; a shorter new
\* prefix raises ValueError
network_subnets(net, new_prefix) ==
    IF net.prefixlen = AddrBits
        THEN [raised |-> "None", value |-> <<net>>]
    ELSE IF new_prefix < net.prefixlen \/ new_prefix > AddrBits
        THEN [raised |-> "ValueError", value |-> <<>>]
    ELSE [raised |-> "None",
          value |-> [i \in 1..Pow2(new_prefix - net.prefixlen) |->
                        [network_address |-> net.network_address
                                               + (i - 1) * Pow2(AddrBits - new_prefix),
                         prefixlen |-> new_prefix]]]

\* lines 126: the existing CIDRs that parse
ParsedExisting(existing_cidrs) ==
    LET parsed == [i \in DOMAIN existing_cidrs |-> parse_cidr(existing_cidrs[i])]
    IN SelectSeq(parsed, LAMBDA net : net # NoNetwork)

\* lines 132-138 without the test: every candidate is free
HasConflict_Never(candidate, existing_networks) == FALSE

\* lines 132-138: the candidate overlaps an existing network
HasConflict(candidate, existing_networks) ==
    \E i \in DOMAIN existing_networks : overlaps(candidate, existing_networks[i])

\* lines 131-143: the loop over the candidates from index i on
RECURSIVE TakeFree(_, _, _, _, _)
TakeFree(candidates, i, existing_networks, count, suggestions) ==
    IF i > Len(candidates) THEN suggestions
    ELSE IF HasConflict(candidates[i], existing_networks)
        THEN TakeFree(candidates, i + 1, existing_networks, count, suggestions)
    ELSE LET more == Append(suggestions, NetworkString(candidates[i]))
         IN IF Len(more) >= count THEN more
            ELSE TakeFree(candidates, i + 1, existing_networks, count, more)

\* find_available_cidrs 113-146
find_available_cidrs(base_cidr, existing_cidrs, prefix_length, count) ==
    LET base_network == parse_cidr(base_cidr)
        candidates == network_subnets(base_network, prefix_length)
    IN IF base_network = NoNetwork THEN <<>>
       ELSE IF candidates.raised # "None" THEN <<>>
       ELSE TakeFree(candidates.value, 1, ParsedExisting(existing_cidrs), count, <<>>)

\* lines 168-174: the primary range of each subnet followed by its
\* secondary ranges
ExistingCidrs(topology_subnets) ==
    Flatten([i \in DOMAIN topology_subnets |->
                <<topology_subnets[i].ip_cidr_range>>
                    \o topology_subnets[i].secondary_ip_ranges])

\* suggest_available_cidrs 149-176
suggest_available_cidrs(base_cidr, topology_subnets, prefix_length, count) ==
    find_available_cidrs(base_cidr, ExistingCidrs(topology_subnets), prefix_length, count)

(***************************************************************************)
(* The security report (security_analyzer.py).  An issue is a record of the *)
(* fields the analyzer sets; its id is a fresh uuid4 and its metadata the   *)
(* empty dict that nothing reads.  An f-string is the sequence of its       *)
(* parts.  A certificate's expiry is <<>> for None and <<d>> for the        *)
(* instant d days after utcnow().                                           *)
(***************************************************************************)
\* lines 57-64
RISKY_PORTS ==
    [port \in {"22", "3389", "21", "23", "3306", "5432"} |->
        CASE port = "22" -> "SSH"
          [] port = "3389" -> "RDP"
          [] port = "21" -> "FTP"
          [] port = "23" -> "Telnet"
          [] port = "3306" -> "MySQL"
          [] port = "5432" -> "PostgreSQL"]

\* lines 82-91: the issue of a rule that allows every protocol
AllTrafficIssue(fw) ==
    [severity |-> "CRITICAL", category |-> "FIREWALL",
     title |-> <<"Firewall allows all traffic from 0.0.0.0/0">>,
     description |-> <<"Rule", fw.name, "allows all protocols/ports from the internet.">>,
     resource_name |-> fw.name, project_id |-> fw.project_id,
     remediation |-> "Restrict source ranges to specific IPs or use IAP."]

\* lines 98-108: the issue of one risky port
RiskyPortIssue(fw, port) ==
    [severity |-> IF port \in {"22", "3389"} THEN "HIGH" ELSE "MEDIUM",
     category |-> "FIREWALL",
     title |-> <<"Open", RISKY_PORTS[port], "Port", port, "to Internet">>,
     description |-> <<"Rule", fw.name, "allows", RISKY_PORTS[port], "traffic from 0.0.0.0/0.">>,
     resource_name |-> fw.name, project_id |-> fw.project_id,
     remediation |-> "Restrict source ranges or use IAP."]

\* lines 77-110: one entry of rule.allowed; a port range is passed over
AllowedIssues(fw, allowed) ==
    IF allowed.IPProtocol = "all" THEN <<AllTrafficIssue(fw)>>
    ELSE IF allowed.IPProtocol \in {"tcp", "udp"}
        THEN Flatten([k \in DOMAIN allowed.ports |->
                 IF allowed.ports[k] \in DOMAIN RISKY_PORTS
                 THEN <<RiskyPortIssue(fw, allowed.ports[k])>> ELSE <<>>])
    ELSE <<>>

\* lines 53-111
_analyze_firewalls(rules) ==
    Flatten([r \in DOMAIN rules |->
        IF rules[r].disabled \/ rules[r].action # "ALLOW" \/ rules[r].direction # "INGRESS"
            THEN <<>>
        ELSE IF "0.0.0.0/0" \notin rules[r].source_ranges THEN <<>>
        ELSE Flatten([a \in DOMAIN rules[r].allowed |->
                 AllowedIssues(rules[r], rules[r].allowed[a])])])

\* lines 125-134: the issue of one reserved address
UnusedAddressIssue(ip) ==
    [severity |-> "LOW", category |-> "COST",
     title |-> <<"Unused Static IP Address">>,
     description |-> <<"IP", ip.ip_address, "is reserved but not in use.">>,
     resource_name |-> ip.resource_name, project_id |-> ip.project_id,
     remediation |-> "Release the static IP if not needed to save costs."]

\* every address is reported, whatever its status
_analyze_public_ips_AnyStatus(public_ips) ==
    [i \in DOMAIN public_ips |-> UnusedAddressIssue(public_ips[i])]

\* lines 113-136
_analyze_public_ips(public_ips) ==
    Flatten([i \in DOMAIN public_ips |->
        IF public_ips[i].status = "RESERVED"
        THEN <<UnusedAddressIssue(public_ips[i])>> ELSE <<>>])

\* lines 160-196: what _check_cert appends to issues
_check_cert(cert, resource_name, project_id) ==
    IF cert.expiry = <<>> THEN <<>>
    ELSE LET days_to_expire == cert.expiry[1]
             issue(severity, title, description, remediation) ==
                 <<[severity |-> severity, category |-> "SECURITY",
                    title |-> <<title, cert.name>>, description |-> description,
                    resource_name |-> resource_name, project_id |-> project_id,
                    remediation |-> remediation]>>
         IN IF days_to_expire < 0
                THEN issue("CRITICAL", "SSL Certificate Expired:",
                           <<"Certificate expired", 0 - days_to_expire, "days ago.">>,
                           "Renew or replace the certificate immediately.")
            ELSE IF days_to_expire < 30
                THEN issue("HIGH", "SSL Certificate Expiring Soon:",
                           <<"Certificate expires in", days_to_expire, "days.">>,
                           "Plan renewal.")
            ELSE IF days_to_expire < 60
                THEN issue("MEDIUM", "SSL Certificate Expiring:",
                           <<"Certificate expires in", days_to_expire, "days.">>,
                           "Monitor.")
            ELSE <<>>

\* lines 146-149 and 152-155: the certificates of the addresses of one list
CertificateIssues(ips) ==
    Flatten([i \in DOMAIN ips |->
        IF ips[i].details # <<>> /\ ips[i].details.frontend # <<>>
        THEN Flatten([c \in DOMAIN ips[i].details.frontend.certificate_details |->
                 _check_cert(ips[i].details.frontend.certificate_details[c],
                             ips[i].resource_name, ips[i].project_id)])
        ELSE <<>>])

\* lines 138-158
_analyze_certificates(public_ips, internal_ips) ==
    CertificateIssues(public_ips) \o CertificateIssues(internal_ips)

\* len([i for i in issues if i.severity == severity])
CountSeverity(found, severity) ==
    Cardinality({i \in DOMAIN found : found[i].severity = severity})

\* lines 47-48: the dict of the categories that occur, each with its count
ByCategory(found) ==
    [c \in {found[i].category : i \in DOMAIN found} |->
        Cardinality({i \in DOMAIN found : found[i].category = c})]

\* lines 25-51
analyze_security(topology) ==
    LET found == _analyze_firewalls(topology.firewall_rules)
                 \o _analyze_public_ips(topology.public_ips)
                 \o _analyze_certificates(topology.public_ips, topology.used_internal_ips)
    IN [issues |-> found,
        summary |-> [critical |-> CountSeverity(found, "CRITICAL"),
                     high |-> CountSeverity(found, "HIGH"),
                     medium |-> CountSeverity(found, "MEDIUM"),
                     low |-> CountSeverity(found, "LOW"),
                     total |-> Len(found),
                     by_category |-> ByCategory(found)]]

(***************************************************************************)
(* The machine types of scan_instances (scanners/instance_scanner.py).      *)
(* machine_type_cache is a dict: a set of entries [key, value], one per     *)
(* key.  None is <<>>.                                                      *)
(***************************************************************************)
NumZones == 2
NumMachineTypes == 1
MaxInstances == 3

\* line 55: cache_key = (zone_name, mt_name)
CacheKeys == (1..NumZones) \X (1..NumMachineTypes)

\* what mt_client.get answers for a machine type of a zone: (guest_cpus,
\* memory_mb)
MachineTypeInfo(cache_key) == <<cache_key[2], 1024 * cache_key[2] + cache_key[1]>>

\* no key is ever found in the cache
InCache_Never(cache, cache_key) == FALSE

\* line 56: cache_key in machine_type_cache
InCache(cache, cache_key) == \E entry \in cache : entry.key = cache_key

\* line 57: machine_type_cache[cache_key]
Cached(cache, cache_key) == (CHOOSE entry \in cache : entry.key = cache_key).value

\* lines 52-66: (cpu_count, memory_mb) of an instance, the cache after it and
\* whether the provider was asked; fetched tells whether mt_client.get
\* answers or raises
LookupMachineType(cache, cache_key, fetched) ==
    IF InCache(cache, cache_key)
        THEN [value |-> Cached(cache, cache_key), cache |-> cache, requested |-> FALSE]
    ELSE IF fetched
        THEN [value |-> MachineTypeInfo(cache_key),
              cache |-> cache \cup {[key |-> cache_key,
                                     value |-> MachineTypeInfo(cache_key)]},
              requested |-> TRUE]
    ELSE [value |-> <<>>, cache |-> cache, requested |-> TRUE]

(***************************************************************************)
(* The workloads of the clusters of an account (scanners/gke_scanner.py,    *)
(* with the Kubernetes library available).  A dict with fixed keys is a     *)
(* function on its keys.                                                    *)
(***************************************************************************)
NumClusters == 2

\* the listings of _scan_cluster_resources in the order of its code
WorkloadKinds ==
    <<"pods", "deployments", "hpas", "services", "ingress", "configmaps",
      "secrets", "pvcs">>

\* lines 199-232 (deployments), 235-252 (HPA) and 275-293 (ingress): the
\* listings with a try of their own
GuardedKinds == {"deployments", "hpas", "ingress"}

\* lines 67-73 and 77-86: the keys scan_all reads and returns
ReturnedKinds ==
    {"pods", "deployments", "services", "ingress", "configmaps", "secrets", "pvcs"}

KindIndex(workload_kind) ==
    CHOOSE k \in DOMAIN WorkloadKinds : WorkloadKinds[k] = workload_kind

\* what a cluster's API lists for a kind: one object
Workloads(project_id, cluster_name, workload_kind) ==
    <<[name |-> <<workload_kind, cluster_name>>, workload |-> workload_kind,
       cluster_name |-> cluster_name, project_id |-> project_id]>>

\* what can happen to the workload scan of a cluster: _get_k8s_client gives
\* None (152-153), or one listing raises, or nothing fails
ClusterEnvs ==
    [credential : {FALSE}, fails : {"none"}]
    \cup [credential : {TRUE}, fails : {"none"} \cup Range(WorkloadKinds)]

\* lines 158-337: a listing is reached and answers: a guarded listing that
\* raises is skipped, any other one that raises ends the scan of the cluster
IsListed(workload_kind, env) ==
    \/ env.fails = "none"
    \/ env.fails \in GuardedKinds /\ workload_kind # env.fails
    \/ env.fails \notin GuardedKinds /\ KindIndex(workload_kind) < KindIndex(env.fails)

\* lines 150-346
_scan_cluster_resources(project_id, cluster_name, env) ==
    IF ~env.credential THEN [k \in ReturnedKinds |-> <<>>]
    ELSE [k \in Range(WorkloadKinds) |->
             IF IsListed(k, env) THEN Workloads(project_id, cluster_name, k)
             ELSE <<>>]

\* lines 67-73: all_pods.extend(res['pods']) and so on
ExtendAll(all_lists, res) ==
    [k \in ReturnedKinds |-> all_lists[k] \o res[k]]

\* line 57: max_workers of the pool
PoolSize(clusters) == IF Len(clusters) = 0 THEN 1
                      ELSE IF Len(clusters) < 10 THEN Len(clusters) ELSE 10

(***************************************************************************)
(* The read endpoints of the API (main.py).  get_scan hands out the dict    *)
(* held by scans_cache itself, so a write into it by a handler is a write   *)
(* into the stored snapshot.                                                *)
(***************************************************************************)
\* scan_manager.py 117-129: scans_cache after get_scan(scan_id)
CacheAfterGet(store, scan_id) ==
    IF scan_id \in DOMAIN store.cache THEN store.cache
    ELSE IF scan_id \in DOMAIN store.disk
        THEN Put(store.cache, scan_id, store.disk[scan_id])
    ELSE store.cache

\* scan_manager.py 135-138
get_latest_completed_scan(store) ==
    IF store.latest # NoScan THEN get_scan(store, store.latest) ELSE NoData

\* project.get(field, []): of the resource lists of a project,
\* gcp_scanner.py fills vpc_networks only (line 938)
ProjectList(project, field) ==
    IF field = "vpc_networks" THEN project.vpc_networks ELSE <<>>

\* the loop body leaves the item as it found it
Annotated_Copy(item, project, with_project_id) ==
    item

\* main.py 473, 499, 522 (project_name) and 543-544 (project_id too):
\* the loop body assigns into the item
Annotated(item, project, with_project_id) ==
    LET named == Put(item, "project_name", project.project_name)
    IN IF with_project_id THEN Put(named, "project_id", project.project_id)
       ELSE named

\* a project of the snapshot after the loop over its list
AnnotatedProject(project, field, with_project_id) ==
    IF field = "vpc_networks"
    THEN [project EXCEPT !.vpc_networks =
             [i \in DOMAIN project.vpc_networks |->
                 Annotated(project.vpc_networks[i], project, with_project_id)]]
    ELSE project

\* the topology dict after the loops of a list endpoint
AnnotatedTopology(topo, field, with_project_id) ==
    [topo EXCEPT !.projects =
        [i \in DOMAIN topo.projects |->
            AnnotatedProject(topo.projects[i], field, with_project_id)]]

\* main.py 469-485, 541-546: the list a list endpoint returns; the top-level
\* lists of instances, clusters and buckets of the topology are empty
ListedResources(topo, field, with_project_id) ==
    Flatten([i \in DOMAIN topo.projects |->
        ProjectList(AnnotatedProject(topo.projects[i], field, with_project_id), field)])

(***************************************************************************)
(* Deleting a stored scan (scan_manager.py 140-156).                        *)
(***************************************************************************)
\* del d[k]
Without(f, k) == [x \in DOMAIN f \ {k} |-> f[x]]

\* lines 149-152: the loop that finds the latest completed scan again, or
\* the TypeError of comparing timestamps of two types
RECURSIVE RefindLatest(_, _, _)
RefindLatest(metadata, latest, sids) ==
    IF sids = <<>> THEN [raised |-> FALSE, latest |-> latest]
    ELSE LET sid == Head(sids)
             meta == metadata[sid]
         IN IF meta.status # "completed"
                THEN RefindLatest(metadata, latest, Tail(sids))
            ELSE IF latest = NoScan
                THEN RefindLatest(metadata, sid, Tail(sids))
            ELSE IF ~Comparable(meta.timestamp, metadata[latest].timestamp)
                THEN [raised |-> TRUE, latest |-> latest]
            ELSE IF meta.timestamp.t > metadata[latest].timestamp.t
                THEN RefindLatest(metadata, sid, Tail(sids))
            ELSE RefindLatest(metadata, latest, Tail(sids))

\* delete_scan(scan_id): the store after the call; an exception of the loop
\* leaves the method before the file is removed
delete_scan(store, scan_id) ==
    LET metadata1 == Without(store.metadata, scan_id)
        cache1 == Without(store.cache, scan_id)
        found == IF scan_id = store.latest
                 THEN RefindLatest(metadata1, NoScan, SeqOfSet(DOMAIN metadata1))
                 ELSE [raised |-> FALSE, latest |-> store.latest]
    IN [cache |-> cache1, metadata |-> metadata1, latest |-> found.latest,
        disk |-> IF found.raised THEN store.disk ELSE Without(store.disk, scan_id)]

(***************************************************************************)
(* The credentials manager (credentials_manager.py).  The metadata file is  *)
(* the list of CredentialInfo records; each method loads it, works on the   *)
(* loaded list and saves it unless it raises before.  An operator gives the *)
(* store after the call and whether the call raised.                        *)
(***************************************************************************)
MaxCredentials == 3
NumNames == 2
MaxReadFailures == 1

CredentialNames == 1..NumNames

\* lines 46-54: the list of the file, or [] when reading it failed
_load_meta(meta, read_ok) == IF read_ok THEN meta ELSE <<>>

Rejected(store) == [raised |-> TRUE, meta |-> store.meta, files |-> store.files]

\* lines 86-141; valid says whether the content is the JSON of a
\* service-account key, cred_id is the fresh id
add_credential(store, valid, name, cred_id, read_ok) ==
    IF ~valid THEN Rejected(store)
    ELSE LET credentials == _load_meta(store.meta, read_ok)
             new_cred == [id |-> cred_id, name |-> name,
                          is_active |-> Len(credentials) = 0]
         IN [raised |-> FALSE,
             meta |-> Append(credentials, new_cred),
             files |-> store.files \cup {cred_id}]

HasCredential(credentials, cred_id) ==
    \E i \in DOMAIN credentials : credentials[i].id = cred_id

\* the loop marks the target and leaves the flags of the others
activate_credential_KeepOthers(store, cred_id, read_ok) ==
    LET credentials == _load_meta(store.meta, read_ok)
    IN IF ~HasCredential(credentials, cred_id) THEN Rejected(store)
       ELSE [raised |-> FALSE,
             meta |-> [i \in DOMAIN credentials |->
                          IF credentials[i].id = cred_id
                          THEN [credentials[i] EXCEPT !.is_active = TRUE]
                          ELSE credentials[i]],
             files |-> store.files]

\* lines 143-168
activate_credential(store, cred_id, read_ok) ==
    LET credentials == _load_meta(store.meta, read_ok)
    IN IF ~HasCredential(credentials, cred_id) THEN Rejected(store)
       ELSE [raised |-> FALSE,
             meta |-> [i \in DOMAIN credentials |->
                          [credentials[i] EXCEPT !.is_active = (credentials[i].id = cred_id)]],
             files |-> store.files]

\* lines 183-186, 220-224: the first record with the id
TargetOf(credentials, cred_id) ==
    credentials[CHOOSE i \in DOMAIN credentials :
                    /\ credentials[i].id = cred_id
                    /\ \A j \in 1..(i - 1) : credentials[j].id # cred_id]

\* lines 170-204
delete_credential(store, cred_id, read_ok) ==
    LET credentials == _load_meta(store.meta, read_ok)
    IN IF ~HasCredential(credentials, cred_id) THEN Rejected(store)
       ELSE IF TargetOf(credentials, cred_id).is_active THEN Rejected(store)
       ELSE [raised |-> FALSE,
             meta |-> SelectSeq(credentials, LAMBDA c : c.id # cred_id),
             files |-> store.files \ {cred_id}]

\* lines 206-230
update_credential_name(store, cred_id, new_name, read_ok) ==
    LET credentials == _load_meta(store.meta, read_ok)
    IN IF ~HasCredential(credentials, cred_id) THEN Rejected(store)
       ELSE [raised |-> FALSE,
             meta |-> [i \in DOMAIN credentials |->
                          IF credentials[i] = TargetOf(credentials, cred_id)
                          THEN [credentials[i] EXCEPT !.name = new_name]
                          ELSE credentials[i]],
             files |-> store.files]

(***************************************************************************)
(* State.                                                                   *)
(***************************************************************************)
VARIABLES
    \* one call of GCPScanner.scan_network_topology
    source_type,          \* argument source_type
    source_id,            \* argument source_id
    include_shared_vpc,   \* argument include_shared_vpc
    discovery_env,        \* outcome of each resource-manager call
    scan_pc,              \* "start", "scanning" or "done"
    project_ids,          \* the ids handed to _scan_projects
    futures,              \* future_to_project: one future per submitted id
    projects,             \* the list _scan_projects builds
    collect_env,          \* outcome of the compute calls of the _collect_* passes
    result,               \* what scan_network_topology returned or raised
    \* the API process: scan_manager and the background tasks
    scans_cache,          \* ScanManager.scans_cache
    scans_metadata,       \* ScanManager.scans_metadata
    latest_completed_scan_id,
    disk,                 \* the files <scan_id>.json of the storage directory
    disk_failures,        \* how many writes to the storage directory have failed
    task_pc,              \* position of run_scan_task for each scan id
    task_args,            \* the arguments start_scan handed to the task
    task_outcome,         \* what the scanner returned or raised in the task
    clock,                \* datetime.utcnow()
    \* one call of _collect_public_ips or of _collect_internal_ips
    merge_public,         \* TRUE for _collect_public_ips
    merge_projects,       \* the projects the loop has not finished, current first
    merge_phase,          \* the listing being iterated, or "returned"
    ips_map,              \* public_ips_map / internal_ips_map
    merged,               \* how many signals this call has merged
    listed,               \* the IP literals the current listing has yielded
    implied,              \* for each IP literal, the types its signals implied
    \* one call of a resource scanner of scanners/*.py
    scanner,              \* which scanner method is called
    scanner_pc,           \* "clients", a listing, "returned" or "raised"
    scanner_results,      \* the list the method builds
    gathered,             \* scan_addresses: the addresses and rules listed so far
    scanner_failed,       \* whether a provider call of this call has failed
    scanner_raised,       \* the exception that left the method, "None" if none
    \* one call of GCPScanner._list_projects_in_folder on the root of a tree
    folder_tree,          \* the hierarchy the resource manager holds
    call_stack,           \* the frames of the recursion, innermost last
    folders_listed,       \* the folders whose listing was requested, in order
    branch_failures,      \* the folders whose frame caught an exception
    discovered,           \* the list the outermost call returned
    \* one call of LBScanner.resolve_lb_details
    lb_rule,              \* the forwarding rule and what its target, URL map and certificates hold
    lb_pc,                \* the step of resolve_lb_details that runs next
    lb_details,           \* the LoadBalancerDetails the call builds
    cert_details,         \* the local list _resolve_certs fills
    backend_service_names, \* the names the backend loop has not visited
    lb_failed_step,       \* the step whose exception reached the outer handler
    lb_raised,            \* the exception that left the call, "None" if none
    \* one call of LBScanner.collect_backend_services
    lb_address,           \* the LoadBalancer address the association map is built from
    service_to_ips,       \* argument service_to_ips
    bs_project,           \* argument project (its project_id)
    bs_pc,                \* the listing collect_backend_services runs next
    bs_regions,           \* the regions the regional loop has not visited
    services,             \* the list the call builds
    \* one call of a scan entry point of GCPScanner
    entry_point,          \* the scan entry point that is called
    entry_arg,            \* its folder or project id
    entry_envs,           \* the outcome of the provider calls of each project's scan
    entry_result,         \* the Topology it returned
    \* the threads of run_scan_task inside save_scan, statement by statement
    save_pc,              \* for each scan id, the statement of save_scan its thread runs next
    save_data,            \* for each scan id, the argument data of its thread's save_scan
    prev_latest,          \* for each scan id, the local prev_latest of its thread
    \* one call of a function of cidr_analyzer.py
    cidr_call,            \* the function of cidr_analyzer.py that is called, with its arguments
    cidr_result,          \* what it returned
    \* the security report (security_analyzer.py)
    sec_pc,               \* idle, called or returned
    sec_topology,         \* the topology handed to analyze_security
    sec_report,           \* the SecurityReport it returned
    \* the machine types of scan_instances (scanners/instance_scanner.py)
    mt_pc,                \* idle, listing or returned
    mt_project,           \* the account scan_instances is called for (0: none yet)
    machine_type_cache,   \* the dict machine_type_cache of the call
    mt_requests,          \* the calls of mt_client.get so far, in order
    gce_instances,        \* the list instances of the call
    \* the workloads of the clusters of an account (scanners/gke_scanner.py)
    gke_pc,               \* idle, scanning or returned
    raw_clusters,         \* the clusters _list_raw_clusters returned
    gke_futures,          \* for each cluster, its future: state, what happened to its scan, what it returned
    gke_all,              \* the lists all_pods, all_deployments, ... of scan_all
    gke_result,           \* what scan_all returned
    \* the read endpoints of the API (main.py)
    read_response,        \* the last answer of a read endpoint
    \* the credentials manager (credentials_manager.py)
    cred_meta,            \* the list of the metadata file
    cred_files,           \* the ids whose key file exists
    cred_next_id,         \* the next fresh id
    cred_read_failures,   \* how many reads of the metadata file have failed
    cred_outcome          \* the last call, its id argument and whether it raised

scanVars == <<source_type, source_id, include_shared_vpc, discovery_env, scan_pc,
              project_ids, futures, projects, collect_env, result>>

taskVars == <<scans_cache, scans_metadata, latest_completed_scan_id, disk,
              disk_failures, task_pc, task_args, task_outcome, clock>>

mergeVars == <<merge_public, merge_projects, merge_phase, ips_map, merged, listed,
               implied>>

scannerVars == <<scanner, scanner_pc, scanner_results, gathered, scanner_failed,
                 scanner_raised>>

discoveryVars == <<folder_tree, call_stack, folders_listed, branch_failures,
                   discovered>>

lbVars == <<lb_rule, lb_pc, lb_details, cert_details, backend_service_names,
           lb_failed_step, lb_raised>>

backendsVars == <<lb_address, service_to_ips, bs_project, bs_pc, bs_regions,
                 services>>

entryVars == <<entry_point, entry_arg, entry_envs, entry_result>>

raceVars == <<save_pc, save_data, prev_latest>>

cidrVars == <<cidr_call, cidr_result>>

securityVars == <<sec_pc, sec_topology, sec_report>>

machineVars == <<mt_pc, mt_project, machine_type_cache, mt_requests, gce_instances>>

gkeVars == <<gke_pc, raw_clusters, gke_futures, gke_all, gke_result>>

readVars == <<read_response>>

credVars == <<cred_meta, cred_files, cred_next_id, cred_read_failures, cred_outcome>>

restVars == <<discoveryVars, lbVars, backendsVars, entryVars, raceVars, cidrVars, securityVars, machineVars, gkeVars, readVars, credVars>>

vars == <<scanVars, taskVars, mergeVars, scannerVars, restVars>>

NoResult == [Raised("None") EXCEPT !.kind = "none"]

NoArgs == [source_type |-> "", source_id |-> <<>>, include_shared_vpc |-> FALSE]

\* no scan_network_topology call is being followed step by step
ScanIdle ==
    /\ source_type = ""
    /\ source_id = <<>>
    /\ include_shared_vpc = FALSE
    /\ discovery_env = [folder |-> [f \in Folders |-> "ok"], search |-> "ok"]
    /\ scan_pc = "idle"
    /\ project_ids = <<>>
    /\ futures = <<>>
    /\ projects = <<>>
    /\ collect_env = [p \in Projects |-> "ok"]
    /\ result = NoResult

\* no _collect_* call is being followed step by step
MergeIdle ==
    /\ merge_public = TRUE
    /\ merge_projects = <<>>
    /\ merge_phase = "idle"
    /\ ips_map = <<>>
    /\ merged = 0
    /\ listed = {}
    /\ implied = <<>>

\* no resource scanner is being followed step by step
ScannerIdle ==
    /\ scanner = "none"
    /\ scanner_pc = "idle"
    /\ scanner_results = <<>>
    /\ gathered = [addresses |-> <<>>, rules |-> <<>>]
    /\ scanner_failed = FALSE
    /\ scanner_raised = "None"

\* no API process
TaskIdle ==
    /\ scans_cache = EmptyFunction
    /\ scans_metadata = EmptyFunction
    /\ latest_completed_scan_id = NoScan
    /\ disk = EmptyFunction
    /\ disk_failures = 0
    /\ task_pc = [id \in NewScans |-> "unborn"]
    /\ task_args = [id \in NewScans |-> NoArgs]
    /\ task_outcome = [id \in NewScans |-> NoResult]
    /\ clock = 1

NotReturned == <<"not returned">>

\* no folder recursion is being followed step by step
DiscoveryIdle ==
    /\ folder_tree = [depth |-> 0, fan_out |-> 0, accounts |-> 0]
    /\ call_stack = <<>>
    /\ folders_listed = <<>>
    /\ branch_failures = {}
    /\ discovered = NotReturned

\* no resolve_lb_details call is being followed step by step
LbIdle ==
    /\ lb_rule = [target |-> "", backend_service |-> FALSE, certificates |-> 0,
                  rules |-> 0]
    /\ lb_pc = "idle"
    /\ lb_details = LoadBalancerDetails
    /\ cert_details = <<>>
    /\ backend_service_names = {}
    /\ lb_failed_step = "none"
    /\ lb_raised = "None"

\* no collect_backend_services call is being followed step by step
BackendsIdle ==
    /\ lb_address = [project_id |-> <<>>, region |-> <<>>, backend_service |-> <<>>,
                     ip_address |-> NoIp]
    /\ service_to_ips = EmptyFunction
    /\ bs_project = <<>>
    /\ bs_pc = "idle"
    /\ bs_regions = <<>>
    /\ services = <<>>

\* no scan entry point is being called as one step
EntryIdle ==
    /\ entry_point = "none"
    /\ entry_arg = 0
    /\ entry_envs = [p \in Projects |-> AllOkEnv]
    /\ entry_result = NoResult

\* no thread is inside save_scan
RaceIdle ==
    /\ save_pc = [id \in NewScans |-> "idle"]
    /\ save_data = [id \in NewScans |-> NoData]
    /\ prev_latest = [id \in NewScans |-> NoScan]

\* no function of cidr_analyzer.py is being called
CidrIdle ==
    /\ cidr_call = [function |-> "none"]
    /\ cidr_result = NotCalled

\* analyze_security is not being called
SecurityIdle ==
    /\ sec_pc = "idle"
    /\ sec_topology = <<>>
    /\ sec_report = <<>>

\* scan_instances is not being called
MachineIdle ==
    /\ mt_pc = "idle"
    /\ mt_project = 0
    /\ machine_type_cache = {}
    /\ mt_requests = <<>>
    /\ gce_instances = <<>>

\* scan_all is not being called
GkeIdle ==
    /\ gke_pc = "idle"
    /\ raw_clusters = <<>>
    /\ gke_futures = <<>>
    /\ gke_all = <<>>
    /\ gke_result = <<>>

\* no read request has been answered
ReadIdle ==
    read_response = [request |-> "none", body |-> <<>>]

\* the credentials manager has stored nothing and answered no call
CredIdle ==
    /\ cred_meta = <<>>
    /\ cred_files = {}
    /\ cred_next_id = 1
    /\ cred_read_failures = 0
    /\ cred_outcome = [op |-> "none", cred_id |-> 0, raised |-> FALSE]

RestIdle ==
    /\ DiscoveryIdle
    /\ LbIdle
    /\ BackendsIdle
    /\ EntryIdle
    /\ RaceIdle
    /\ CidrIdle
    /\ SecurityIdle
    /\ MachineIdle
    /\ GkeIdle
    /\ ReadIdle
    /\ CredIdle

(***************************************************************************)
(* SpecScan: one call of scan_network_topology, from its arguments to the   *)
(* Topology it returns or the exception it raises.                          *)
(***************************************************************************)
Tokens == {<<Blank>>} \cup {<<Blank, p>> : p \in Projects}

PendingProject(p) ==
    [project_id |-> p, project_name |-> <<"id", p>>, project_number |-> <<>>,
     is_shared_vpc_host |-> FALSE, vpc_networks |-> <<>>,
     scan_status |-> "pending", error_message |-> "None"]

ScanInit ==
    /\ source_type \in SourceTypes
    /\ source_id \in IF source_type = "project" THEN SeqsUpTo(Tokens, MaxIds)
                     ELSE IF source_type = "folder" THEN {RootFolder}
                     ELSE {0}
    /\ include_shared_vpc \in BOOLEAN
    /\ discovery_env \in
           [folder : IF source_type = "folder" THEN [Folders -> FolderOutcomes]
                     ELSE {[f \in Folders |-> "ok"]},
            search : IF source_type \in {"organization", "all_accessible"}
                     THEN {"ok", "fail"} ELSE {"ok"}]
    /\ scan_pc = "start"
    /\ project_ids = <<>>
    /\ futures = <<>>
    /\ projects = <<>>
    /\ collect_env = [p \in Projects |-> "ok"]
    /\ result = NoResult
    /\ TaskIdle
    /\ MergeIdle
    /\ ScannerIdle
    /\ RestIdle

\* lines 140-160 and 885-892: resolve the ids and submit one future per id;
\* an unknown source_type raises and the handler of line 197 runs
Resolve ==
    /\ scan_pc = "start"
    /\ LET ids == ResolveProjectIds(source_type, source_id, discovery_env)
       IN IF ids.raised # "None"
          THEN /\ result' = Raised(ExceptHandler(ids.raised))
               /\ scan_pc' = "done"
               /\ UNCHANGED <<project_ids, futures>>
          ELSE /\ project_ids' = ids.value
               /\ futures' = [i \in DOMAIN ids.value |->
                                 [state |-> "submitted", env |-> AllOkEnv,
                                  project |-> PendingProject(ids.value[i])]]
               /\ scan_pc' = "scanning"
               /\ UNCHANGED result
    /\ UNCHANGED <<source_type, source_id, include_shared_vpc, discovery_env, projects,
                   collect_env>>
    /\ UNCHANGED <<taskVars, mergeVars, scannerVars, restVars>>

\* the provider calls that have failed so far in this scan
FailuresSoFar ==
    SumSeq([i \in DOMAIN futures |-> FailCount(futures[i].env)])

\* a worker thread runs _scan_single_project for one submitted id
RunFuture(i) ==
    /\ scan_pc = "scanning"
    /\ futures[i].state = "submitted"
    /\ \E env \in ScanEnvs :
          /\ (~(include_shared_vpc /\ IsXpnHost(project_ids[i])) => env.xpn = "ok")
          /\ FailuresSoFar + FailCount(env) <= MaxFailures
          /\ futures' = [futures EXCEPT ![i] =
                [state |-> "done", env |-> env,
                 project |-> _scan_single_project(project_ids[i],
                                                  include_shared_vpc, env)]]
    /\ UNCHANGED <<source_type, source_id, include_shared_vpc, discovery_env,
                   scan_pc, project_ids, projects, collect_env, result>>
    /\ UNCHANGED <<taskVars, mergeVars, scannerVars, restVars>>

\* lines 894-898: as_completed yields a finished future and its Project is
\* appended
Join(i) ==
    /\ scan_pc = "scanning"
    /\ futures[i].state = "done"
    /\ projects' = Append(projects, futures[i].project)
    /\ futures' = [futures EXCEPT ![i].state = "joined"]
    /\ UNCHANGED <<source_type, source_id, include_shared_vpc, discovery_env,
                   scan_pc, project_ids, collect_env, result>>
    /\ UNCHANGED <<taskVars, mergeVars, scannerVars, restVars>>

\* lines 164-195: every future is joined; statistics, collection, Topology
Assemble ==
    /\ scan_pc = "scanning"
    /\ \A i \in DOMAIN futures : futures[i].state = "joined"
    /\ \E cenv \in [Projects -> {"ok", "fail"}] :
          /\ FailuresSoFar + Cardinality({p \in Projects : cenv[p] = "fail"}) <= MaxFailures
          /\ collect_env' = cenv
          /\ result' = NetworkTopology(source_type, source_id, projects, cenv)
    /\ scan_pc' = "done"
    /\ UNCHANGED <<source_type, source_id, include_shared_vpc, discovery_env,
                   project_ids, futures, projects>>
    /\ UNCHANGED <<taskVars, mergeVars, scannerVars, restVars>>

ScanNext ==
    \/ Resolve
    \/ \E i \in DOMAIN futures : RunFuture(i)
    \/ \E i \in DOMAIN futures : Join(i)
    \/ Assemble

SpecScan == ScanInit /\ [][ScanNext]_vars

(***************************************************************************)
(* SpecTask: the API process.  start_scan creates a scan and queues         *)
(* run_scan_task, which runs in a worker thread in three steps: mark the    *)
(* scan running, run the scanner, save what it returned or raised.          *)
(***************************************************************************)
Store ==
    [cache |-> scans_cache, metadata |-> scans_metadata,
     latest |-> latest_completed_scan_id, disk |-> disk]

StoreNext ==
    [cache |-> scans_cache', metadata |-> scans_metadata',
     latest |-> latest_completed_scan_id', disk |-> disk']

\* whether the write of the file succeeds; at most MaxDiskFailures writes fail
DiskOutcomes == IF disk_failures < MaxDiskFailures THEN BOOLEAN ELSE {TRUE}

\* scan_manager.save_scan(scan_id, data)
SaveScan(scan_id, data, disk_ok) ==
    LET store == save_scan(Store, scan_id, data, disk_ok)
    IN /\ scans_cache' = store.cache
       /\ scans_metadata' = store.metadata
       /\ latest_completed_scan_id' = store.latest
       /\ disk' = store.disk
       /\ disk_failures' = IF disk_ok THEN disk_failures ELSE disk_failures + 1

\* a completed scan of an earlier run of the process, as its file holds it
OldScanData ==
    JsonRoundTrip(ResultData(OldScan,
        model_dump(NetworkTopology("project", <<>>, <<>>, [p \in Projects |-> "ok"]), 0)))

InitialDisks == {EmptyFunction, [id \in {OldScan} |-> OldScanData]}

\* the kinds of request this specification sends: one that names its
\* accounts and one whose accounts are discovered
RequestSourceTypes == {"project", "folder"}

\* the source_id a request of each kind carries
RequestSourceId(st) ==
    IF st = "project" THEN <<<<Blank, 1>>, <<2, Blank>>>>
    ELSE IF st = "folder" THEN RootFolder
    ELSE 0

\* the provider as a task's scan meets it: every call succeeds, or discovery
\* and every compute call fail
TaskEnvs ==
    {[discovery |-> [folder |-> [f \in Folders |-> "ok"], search |-> "ok"],
      scan |-> AllOkEnv, collect |-> "ok"],
     [discovery |-> [folder |-> [f \in Folders |-> "folders_fail"], search |-> "fail"],
      scan |-> [AllOkEnv EXCEPT !.client = "Error"], collect |-> "fail"]}

\* lifespan: load_scans() on the storage directory
TaskInit ==
    /\ ScanIdle
    /\ MergeIdle
    /\ ScannerIdle
    /\ RestIdle
    /\ disk \in InitialDisks
    /\ scans_cache = load_scans(disk).cache
    /\ scans_metadata = load_scans(disk).metadata
    /\ latest_completed_scan_id = load_scans(disk).latest
    /\ disk_failures = 0
    /\ task_pc = [id \in NewScans |-> "unborn"]
    /\ task_args = [id \in NewScans |-> NoArgs]
    /\ task_outcome = [id \in NewScans |-> NoResult]
    /\ clock = 1

\* main.py 136-175: POST /api/scan with a request the ScanRequest pattern
\* accepted; scan_id is a fresh uuid
start_scan(scan_id) ==
    /\ task_pc[scan_id] = "unborn"
    /\ \A other \in NewScans : other < scan_id => task_pc[other] # "unborn"
    /\ \E st \in RequestSourceTypes, disk_ok \in DiskOutcomes :
          /\ SaveScan(scan_id, PendingData(scan_id), disk_ok)
          /\ task_args' = [task_args EXCEPT ![scan_id] =
                [source_type |-> st, source_id |-> RequestSourceId(st),
                 include_shared_vpc |-> TRUE]]
    /\ task_pc' = [task_pc EXCEPT ![scan_id] = "queued"]
    /\ UNCHANGED <<task_outcome, clock, scanVars, mergeVars, scannerVars, restVars>>

\* main.py 71-74
MarkRunning(scan_id) ==
    /\ task_pc[scan_id] = "queued"
    /\ LET current_data == get_scan(Store, scan_id)
       IN IF current_data # NoData
          THEN \E disk_ok \in DiskOutcomes :
                  SaveScan(scan_id, MarkedRunning(current_data), disk_ok)
          ELSE UNCHANGED <<scans_cache, scans_metadata, latest_completed_scan_id, disk,
                           disk_failures>>
    /\ task_pc' = [task_pc EXCEPT ![scan_id] = "scanning"]
    /\ UNCHANGED <<task_args, task_outcome, clock, scanVars, mergeVars, scannerVars, restVars>>

\* main.py 76-82: GCPScanner() creates its resource-manager clients, which
\* may raise, and scan_network_topology returns or raises
RunScanner(scan_id) ==
    /\ task_pc[scan_id] = "scanning"
    /\ \E constructed \in BOOLEAN, env \in TaskEnvs :
          /\ (~constructed => env.collect = "ok")
          /\ task_outcome' = [task_outcome EXCEPT ![scan_id] =
                IF constructed
                THEN scan_network_topology(task_args[scan_id].source_type,
                         task_args[scan_id].source_id,
                         task_args[scan_id].include_shared_vpc,
                         env.discovery,
                         [p \in ProviderProjects |-> env.scan],
                         [p \in Projects |-> env.collect])
                ELSE Raised("DefaultCredentialsError")]
    /\ task_pc' = [task_pc EXCEPT ![scan_id] = "scanned"]
    /\ UNCHANGED <<scans_cache, scans_metadata, latest_completed_scan_id, disk,
                   disk_failures, task_args, clock, scanVars, mergeVars, scannerVars, restVars>>

\* main.py 85-93 when the scanner returned, 97-104 when anything raised
SaveOutcome(scan_id) ==
    /\ task_pc[scan_id] = "scanned"
    /\ \E disk_ok \in DiskOutcomes :
          IF task_outcome[scan_id].kind = "topology"
          THEN /\ SaveScan(scan_id,
                      ResultData(scan_id, model_dump(task_outcome[scan_id], clock)),
                      disk_ok)
               /\ clock' = clock + 1
          ELSE /\ SaveScan(scan_id,
                      FailedData(scan_id, task_outcome[scan_id].raised), disk_ok)
               /\ UNCHANGED clock
    /\ task_pc' = [task_pc EXCEPT ![scan_id] = "done"]
    /\ UNCHANGED <<task_args, task_outcome, scanVars, mergeVars, scannerVars, restVars>>

run_scan_task(scan_id) ==
    \/ MarkRunning(scan_id)
    \/ RunScanner(scan_id)
    \/ SaveOutcome(scan_id)

TaskNext ==
    \/ \E scan_id \in NewScans : start_scan(scan_id)
    \/ \E scan_id \in NewScans : MarkRunning(scan_id)
    \/ \E scan_id \in NewScans : RunScanner(scan_id)
    \/ \E scan_id \in NewScans : SaveOutcome(scan_id)

SpecTask == TaskInit /\ [][TaskNext]_vars

\* a queued background task is run by the worker pool, and each provider
\* call returns or raises
SpecTaskFair ==
    SpecTask /\ \A scan_id \in NewScans : WF_vars(run_scan_task(scan_id))

(***************************************************************************)
(* SpecMerge: one call of _collect_public_ips or of _collect_internal_ips,  *)
(* signal by signal.  For each successful project the listings are          *)
(* iterated in the order of the code; whatever the compute API reports is   *)
(* merged into the map; an exception ends the project.                      *)
(***************************************************************************)
NumIps == 2
MaxSignals == 3

MergeIps == 1..NumIps

\* who uses a static address: nobody (it is reserved), a forwarding rule, an
\* instance, or a resource of another kind
AddressUsages(ip) ==
    {[users |-> <<>>, status |-> "RESERVED"],
     [users |-> <<[kind |-> "forwardingRules", name |-> <<"fr", ip>>]>>, status |-> "IN_USE"],
     [users |-> <<[kind |-> "instances", name |-> <<"vm", ip>>]>>, status |-> "IN_USE"],
     [users |-> <<[kind |-> "vpnGateways", name |-> <<"gw", ip>>]>>, status |-> "IN_USE"]}

AddressSignals(kind) ==
    UNION {{[kind |-> kind, address |-> ip, name |-> <<"addr", ip>>,
             address_type |-> type, users |-> usage.users, status |-> usage.status,
             description |-> description, region |-> "r1",
             network |-> <<"networks", "default">>, subnetwork |-> <<>>] :
               type \in {"EXTERNAL", "INTERNAL"}, usage \in AddressUsages(ip),
               description \in {"", "reserved"}} : ip \in MergeIps}

ForwardingRuleSignals(kind) ==
    {[kind |-> kind, I_p_address |-> ip, name |-> <<"fr", ip>>,
      load_balancing_scheme |-> scheme, description |-> description,
      labels |-> labels, region |-> "r1",
      network |-> <<"networks", "default">>, subnetwork |-> <<>>] :
        ip \in MergeIps, scheme \in {"EXTERNAL", "INTERNAL"},
        description \in {"", "front"}, labels \in {{}, {"app"}, {"web"}}}

InstanceSignals ==
    {[kind |-> "instance", name |-> <<"vm", ip>>, zone |-> "r1-a", region |-> "r1",
      nat_i_p |-> ip, network_i_p |-> ip,
      network |-> <<"networks", "default">>,
      subnetwork |-> <<"subnetworks", "default">>] : ip \in MergeIps}

\* the record a signal makes when its IP literal is new: the map with only it
Alone(sig, public) ==
    IF public THEN PublicSignal(<<>>, sig, 0) ELSE InternalSignal(<<>>, sig, 0)

\* the IP literal a signal is about, NoIp when the collector ignores it
SignalIp(sig, public) ==
    IF Alone(sig, public) = <<>> THEN NoIp ELSE Alone(sig, public)[1].ip_address

\* the resource type a signal implies on its own
ImpliedType(sig, public) == Alone(sig, public)[1].resource_type

\* the listings of one project in the order of the code
NextPhase(phase, public) ==
    IF phase = "addresses"
        THEN (IF public THEN "global_addresses" ELSE "forwarding_rules")
    ELSE IF phase = "global_addresses" THEN "forwarding_rules"
    ELSE IF phase = "forwarding_rules"
        THEN (IF public THEN "global_forwarding_rules" ELSE "instances")
    ELSE IF phase = "global_forwarding_rules" THEN "instances"
    ELSE "end"

MergeInit ==
    /\ ScanIdle
    /\ TaskIdle
    /\ ScannerIdle
    /\ RestIdle
    /\ merge_public \in BOOLEAN
    /\ \E status \in [Projects -> {"success", "error"}] :
          merge_projects = [p \in 1..NumProjects |->
                               [project_id |-> p, scan_status |-> status[p]]]
    /\ merge_phase = "addresses"
    /\ ips_map = <<>>
    /\ merged = 0
    /\ listed = {}
    /\ implied = [ip \in MergeIps |-> {}]

Listing(phase) ==
    /\ merge_phase = phase
    /\ merge_projects # <<>>
    /\ Head(merge_projects).scan_status = "success"
    /\ merged < MaxSignals

\* the listing yields one more item, which is merged
Merge(sig) ==
    /\ ips_map' = IF merge_public
                  THEN PublicSignal(ips_map, sig, Head(merge_projects).project_id)
                  ELSE InternalSignal(ips_map, sig, Head(merge_projects).project_id)
    /\ implied' = IF SignalIp(sig, merge_public) = NoIp THEN implied
                  ELSE [implied EXCEPT ![SignalIp(sig, merge_public)] =
                           @ \cup {ImpliedType(sig, merge_public)}]
    /\ merged' = merged + 1
    /\ UNCHANGED <<merge_public, merge_projects, merge_phase, scanVars, taskVars,
                   scannerVars, restVars>>

\* lines 329-365 and 529-564; a listing yields an address resource once
MergeRegionalAddress ==
    /\ Listing("addresses")
    /\ \E addr \in AddressSignals("address") :
          /\ addr.address \notin listed
          /\ listed' = listed \cup {addr.address}
          /\ Merge(addr)

\* lines 368-388
MergeGlobalAddress ==
    /\ Listing("global_addresses")
    /\ \E addr \in AddressSignals("global_address") :
          /\ addr.address \notin listed
          /\ listed' = listed \cup {addr.address}
          /\ Merge(addr)

\* lines 396-433 and 570-592; several forwarding rules may carry one IP
MergeRegionalForwardingRule ==
    /\ Listing("forwarding_rules")
    /\ \E rule \in ForwardingRuleSignals("forwarding_rule") :
          /\ UNCHANGED listed
          /\ Merge(rule)

\* lines 436-460
MergeGlobalForwardingRule ==
    /\ Listing("global_forwarding_rules")
    /\ \E rule \in ForwardingRuleSignals("global_forwarding_rule") :
          /\ UNCHANGED listed
          /\ Merge(rule)

\* lines 466-495 and 598-627; an interface address belongs to one instance
MergeInstance ==
    /\ Listing("instances")
    /\ \E instance \in InstanceSignals :
          /\ instance.nat_i_p \notin listed
          /\ listed' = listed \cup {instance.nat_i_p}
          /\ Merge(instance)

\* a listing is exhausted: the next listing, or the next project
EndListing ==
    /\ merge_phase \in {"addresses", "global_addresses", "forwarding_rules",
                        "global_forwarding_rules", "instances"}
    /\ merge_projects # <<>>
    /\ Head(merge_projects).scan_status = "success"
    /\ IF NextPhase(merge_phase, merge_public) = "end"
       THEN /\ merge_projects' = Tail(merge_projects)
            /\ merge_phase' = "addresses"
       ELSE /\ merge_phase' = NextPhase(merge_phase, merge_public)
            /\ UNCHANGED merge_projects
    /\ listed' = {}
    /\ UNCHANGED <<merge_public, ips_map, merged, implied, scanVars, taskVars,
                   scannerVars, restVars>>

\* lines 319-320 and 520-521
SkipProject ==
    /\ merge_phase = "addresses"
    /\ merge_projects # <<>>
    /\ Head(merge_projects).scan_status # "success"
    /\ merge_projects' = Tail(merge_projects)
    /\ UNCHANGED <<merge_public, merge_phase, ips_map, merged, listed, implied,
                   scanVars, taskVars,
                   scannerVars, restVars>>

\* lines 497-498 and 629-630: a compute call raised; the project is left
FailListing ==
    /\ merge_phase \in {"addresses", "global_addresses", "forwarding_rules",
                        "global_forwarding_rules", "instances"}
    /\ merge_projects # <<>>
    /\ Head(merge_projects).scan_status = "success"
    /\ merge_projects' = Tail(merge_projects)
    /\ merge_phase' = "addresses"
    /\ listed' = {}
    /\ UNCHANGED <<merge_public, ips_map, merged, implied, scanVars, taskVars,
                   scannerVars, restVars>>

\* lines 500 and 632: return list(map.values())
ReturnIps ==
    /\ merge_phase = "addresses"
    /\ merge_projects = <<>>
    /\ merge_phase' = "returned"
    /\ UNCHANGED <<merge_public, merge_projects, ips_map, merged, listed, implied,
                   scanVars, taskVars,
                   scannerVars, restVars>>

MergeNext ==
    \/ MergeRegionalAddress
    \/ MergeGlobalAddress
    \/ MergeRegionalForwardingRule
    \/ MergeGlobalForwardingRule
    \/ MergeInstance
    \/ EndListing
    \/ SkipProject
    \/ FailListing
    \/ ReturnIps

SpecMerge == MergeInit /\ [][MergeNext]_vars

(***************************************************************************)
(* SpecScanners: one call of one method of the resource scanners of         *)
(* scanners/*.py for one project: the clients are created, the listings are *)
(* iterated item by item, and every provider call returns or raises.        *)
(***************************************************************************)
MaxItems == 3

ScannerKinds ==
    {"scan_vpc_networks", "scan_subnets", "scan_firewalls", "scan_cloud_armor",
     "scan_addresses", "scan_instances", "scan_buckets"}

\* the methods that create their clients inside their try block
ClientsInsideTry == {"scan_addresses", "scan_instances", "scan_buckets"}

\* the methods whose handler returns the list built so far
ReturnsListBuiltSoFar ==
    {"scan_vpc_networks", "scan_subnets", "scan_firewalls", "scan_cloud_armor"}

\* the listings of a method, in the order of its code
FirstListing(kind) ==
    IF kind = "scan_addresses" THEN "global_addresses" ELSE "listing"

\* scan_addresses, lines 37-83: the listing after this one ended, and after
\* this one raised (a failure of the regional forwarding rules skips the
\* global ones)
ListingAfter(listing, raised) ==
    IF listing = "global_addresses" THEN "regional_addresses"
    ELSE IF listing = "regional_addresses" THEN "forwarding_rules"
    ELSE IF listing = "forwarding_rules" /\ ~raised THEN "global_forwarding_rules"
    ELSE "build"

AddressItems ==
    {[address |-> ip, name |-> <<"addr", ip>>, address_type |-> type, status |-> status] :
        ip \in MergeIps, type \in {"EXTERNAL", "INTERNAL"},
        status \in {"RESERVED", "IN_USE"}}

\* the forwarding rules of an account; two rules may carry the same IP literal
\* (one per port)
RuleItems ==
    {[I_p_address |-> ip, name |-> <<"fr", ip, port>>, load_balancing_scheme |-> scheme] :
        ip \in MergeIps, port \in {80, 443}, scheme \in {"EXTERNAL", "INTERNAL"}}

\* scan_addresses(project_id, "EXTERNAL"), lines 52-185: the records built
\* from the addresses and forwarding rules that were listed
BuildAddresses(addresses, rules) ==
    LET IsTarget(a) == a.address_type = "EXTERNAL"
        target_addr == SelectSeq(addresses, IsTarget)
        HasRule(ip) == \E k \in DOMAIN rules : rules[k].I_p_address = ip
        \* ip_to_fwd: the last rule listed with an IP is the one kept
        RuleOf(ip) == rules[CHOOSE k \in DOMAIN rules :
                              /\ rules[k].I_p_address = ip
                              /\ \A m \in DOMAIN rules :
                                    rules[m].I_p_address = ip => m <= k]
        FromAddress(a) ==
            [ip_address |-> a.address,
             resource_type |-> IF HasRule(a.address) THEN "LoadBalancer"
                               ELSE IF a.status = "IN_USE" THEN "In Use (Unknown)"
                               ELSE "Unused",
             resource_name |-> IF HasRule(a.address) THEN RuleOf(a.address).name
                               ELSE a.name,
             status |-> IF a.status = "IN_USE" THEN "IN_USE" ELSE "RESERVED"]
        Processed(ip) == \E k \in DOMAIN target_addr : target_addr[k].address = ip
        IsNewExternal(fr) ==
            /\ ~Processed(fr.I_p_address)
            /\ fr.load_balancing_scheme \in {"EXTERNAL", "EXTERNAL_MANAGED"}
        new_rules == SelectSeq(rules, IsNewExternal)
        FromRule(fr) ==
            [ip_address |-> fr.I_p_address, resource_type |-> "LoadBalancer",
             resource_name |-> fr.name, status |-> "IN_USE"]
    IN [k \in DOMAIN target_addr |-> FromAddress(target_addr[k])]
       \o [k \in DOMAIN new_rules |-> FromRule(new_rules[k])]

\* NetworkScanner.scan_subnets as scan_vpc_networks calls it (line 58): what
\* it returns or raises when its client cannot be created ("client"), when
\* its listing raises after the first subnet ("listing"), or when all is well
scan_subnets(outcome) ==
    IF outcome = "client" THEN [raised |-> "DefaultCredentialsError", value |-> <<>>]
    ELSE IF outcome = "listing" THEN [raised |-> "None", value |-> <<"subnet-1">>]
    ELSE [raised |-> "None", value |-> <<"subnet-1", "subnet-2">>]

ScannerInit ==
    /\ ScanIdle
    /\ TaskIdle
    /\ MergeIdle
    /\ RestIdle
    /\ scanner \in ScannerKinds
    /\ scanner_pc = "clients"
    /\ scanner_results = <<>>
    /\ gathered = [addresses |-> <<>>, rules |-> <<>>]
    /\ scanner_failed = FALSE
    /\ scanner_raised = "None"

Others == <<scanVars, taskVars, mergeVars, restVars>>

\* the compute / storage clients of the method are created
CreateClients ==
    /\ scanner_pc = "clients"
    /\ \E created \in BOOLEAN :
          IF created
          THEN /\ scanner_pc' = FirstListing(scanner)
               /\ UNCHANGED <<scanner_failed, scanner_raised>>
          ELSE /\ scanner_failed' = TRUE
               /\ IF scanner \in ClientsInsideTry
                  THEN scanner_pc' = "returned" /\ UNCHANGED scanner_raised
                  ELSE scanner_pc' = "raised" /\ scanner_raised' = "DefaultCredentialsError"
    /\ UNCHANGED <<scanner, scanner_results, gathered, Others>>

\* scan_subnets 77-101, scan_firewalls 23-52, scan_cloud_armor 69-91: the
\* listing yields an item and its record is appended
ListItem ==
    /\ scanner \in {"scan_subnets", "scan_firewalls", "scan_cloud_armor"}
    /\ scanner_pc = "listing"
    /\ Len(scanner_results) < MaxItems
    /\ scanner_results' = Append(scanner_results, <<scanner, Len(scanner_results) + 1>>)
    /\ UNCHANGED <<scanner, scanner_pc, gathered, scanner_failed, scanner_raised, Others>>

\* scan_vpc_networks 23-59: a network is listed, the xpn client is created
\* (a failure is passed over), and scan_subnets is called for the network
ListNetwork ==
    /\ scanner = "scan_vpc_networks"
    /\ scanner_pc = "listing"
    /\ Len(scanner_results) < MaxItems
    /\ \E xpn_created \in BOOLEAN, outcome \in {"ok", "listing", "client"} :
          LET subnets == scan_subnets(outcome)
          IN /\ scanner_failed' = (scanner_failed \/ ~xpn_created \/ outcome # "ok")
             /\ IF subnets.raised # "None"
                THEN scanner_pc' = "returned" /\ UNCHANGED scanner_results
                ELSE /\ scanner_results' = Append(scanner_results,
                            [name |-> <<scanner, Len(scanner_results) + 1>>,
                             subnets |-> subnets.value])
                     /\ UNCHANGED scanner_pc
    /\ UNCHANGED <<scanner, gathered, scanner_raised, Others>>

\* scan_instances 36-82 and scan_buckets 22-44: an item is listed and the
\* call made for it (machine type, IAM policy) returns or raises; the item
\* is appended either way
ListWithLookup ==
    /\ scanner \in {"scan_instances", "scan_buckets"}
    /\ scanner_pc = "listing"
    /\ Len(scanner_results) < MaxItems
    /\ \E looked_up \in BOOLEAN :
          /\ scanner_failed' = (scanner_failed \/ ~looked_up)
          /\ scanner_results' = Append(scanner_results,
                 [name |-> <<scanner, Len(scanner_results) + 1>>,
                  looked_up |-> looked_up])
    /\ UNCHANGED <<scanner, scanner_pc, gathered, scanner_raised, Others>>

\* scan_addresses 38-39 and 46-48: an address is listed
GatherAddress ==
    /\ scanner = "scan_addresses"
    /\ scanner_pc \in {"global_addresses", "regional_addresses"}
    /\ Len(gathered.addresses) + Len(gathered.rules) < MaxItems
    /\ \E addr \in AddressItems :
          \* the provider lists an address once
          /\ \A k \in DOMAIN gathered.addresses :
                gathered.addresses[k].address # addr.address
          /\ gathered' = [gathered EXCEPT !.addresses = Append(@, addr)]
    /\ UNCHANGED <<scanner, scanner_pc, scanner_results, scanner_failed,
                   scanner_raised, Others>>

\* scan_addresses 71-78: a forwarding rule is listed
GatherRule ==
    /\ scanner = "scan_addresses"
    /\ scanner_pc \in {"forwarding_rules", "global_forwarding_rules"}
    /\ Len(gathered.addresses) + Len(gathered.rules) < MaxItems
    /\ \E rule \in RuleItems :
          \* the provider lists a forwarding rule once
          /\ \A k \in DOMAIN gathered.rules : gathered.rules[k].name # rule.name
          /\ gathered' = [gathered EXCEPT !.rules = Append(@, rule)]
    /\ UNCHANGED <<scanner, scanner_pc, scanner_results, scanner_failed,
                   scanner_raised, Others>>

\* what ends a listing: raised = FALSE when it is exhausted, TRUE when the
\* provider call raised
EndOfListing(raised) ==
    /\ scanner_failed' = (scanner_failed \/ raised)
    /\ IF scanner = "scan_addresses"
       THEN IF ListingAfter(scanner_pc, raised) = "build"
            THEN /\ scanner_results' = BuildAddresses(gathered.addresses, gathered.rules)
                 /\ scanner_pc' = "returned"
            ELSE /\ scanner_pc' = ListingAfter(scanner_pc, raised)
                 /\ UNCHANGED scanner_results
       ELSE /\ scanner_pc' = "returned"
            /\ scanner_results' =
                   IF raised /\ scanner \notin ReturnsListBuiltSoFar THEN <<>>
                   ELSE scanner_results
    /\ UNCHANGED <<scanner, gathered, scanner_raised, Others>>

Listings ==
    {"listing", "global_addresses", "regional_addresses", "forwarding_rules",
     "global_forwarding_rules"}

\* the listing is exhausted
ListingEnds ==
    /\ scanner_pc \in Listings
    /\ EndOfListing(FALSE)

\* the provider call behind the listing raises (permission denied, API
\* disabled, transient error)
ListingFails ==
    /\ scanner_pc \in Listings
    /\ EndOfListing(TRUE)

ScannerNext ==
    \/ CreateClients
    \/ ListItem
    \/ ListNetwork
    \/ ListWithLookup
    \/ GatherAddress
    \/ GatherRule
    \/ ListingEnds
    \/ ListingFails

SpecScanners == ScannerInit /\ [][ScannerNext]_vars

(***************************************************************************)
(* SpecDiscovery: one call of GCPScanner._list_projects_in_folder           *)
(* (gcp_scanner.py 236-264) on the root of a folder tree, followed frame by *)
(* frame.  A folder is the path of child indices from the root; child 0 of  *)
(* a folder is a folder that is not ACTIVE, project 0 of a folder is a      *)
(* project that is not ACTIVE.                                              *)
(***************************************************************************)
MaxDepth == 2
MaxFanOut == 2
MaxAccounts == 1
MaxBranchFailures == 1

FolderTrees ==
    [depth : 0..MaxDepth, fan_out : 0..MaxFanOut, accounts : 0..MaxAccounts]

RootOfTree == <<>>

\* what list_folders yields for parent f, in listing order
ListedFolders(tree, f) ==
    IF Len(f) < tree.depth
    THEN [i \in 1..(tree.fan_out + 1) |-> Append(f, i - 1)]
    ELSE <<>>

\* what list_projects yields for parent f, in listing order
ListedProjects(tree, f) == [i \in 1..(tree.accounts + 1) |-> <<f, i - 1>>]

FolderIsActive(f) == \A i \in DOMAIN f : f[i] # 0

ProjectIsActive(project) == project[2] # 0

Frame(folder_id) ==
    [folder_id |-> folder_id, project_ids |-> <<>>, pc |-> "projects", next |-> 1]

\* `return project_ids` of the innermost frame: the caller extends its own
\* list with it (line 258); the outermost call hands it to its caller
ReturnTo_DropsList(stack) ==
    LET n == Len(stack)
    IN IF n = 1 THEN <<>>
       ELSE SubSeq(stack, 1, n - 1)

ReturnTo(stack) ==
    LET n == Len(stack)
    IN IF n = 1 THEN <<>>
       ELSE [SubSeq(stack, 1, n - 1) EXCEPT ![n - 1].project_ids =
                @ \o stack[n].project_ids]

DiscoveryInit ==
    /\ ScanIdle
    /\ TaskIdle
    /\ MergeIdle
    /\ ScannerIdle
    /\ LbIdle
    /\ BackendsIdle
    /\ EntryIdle
    /\ RaceIdle
    /\ CidrIdle
    /\ SecurityIdle
    /\ MachineIdle
    /\ GkeIdle
    /\ ReadIdle
    /\ CredIdle
    /\ folder_tree \in FolderTrees
    /\ call_stack = <<Frame(RootOfTree)>>
    /\ folders_listed = <<RootOfTree>>
    /\ branch_failures = {}
    /\ discovered = NotReturned

DiscoveryOthers == <<scanVars, taskVars, mergeVars, scannerVars, lbVars,
                     backendsVars, entryVars, raceVars, cidrVars,
                     securityVars, machineVars, gkeVars, readVars, credVars>>

Top == call_stack[Len(call_stack)]

\* lines 245-247: list_projects yields a project; an ACTIVE one is appended
ListProject ==
    /\ call_stack # <<>>
    /\ Top.pc = "projects"
    /\ Top.next <= Len(ListedProjects(folder_tree, Top.folder_id))
    /\ LET project == ListedProjects(folder_tree, Top.folder_id)[Top.next]
           n == Len(call_stack)
       IN call_stack' =
            [call_stack EXCEPT ![n].next = @ + 1,
                               ![n].project_ids =
                                   IF ProjectIsActive(project)
                                   THEN Append(@, project) ELSE @]
    /\ UNCHANGED <<folder_tree, folders_listed, branch_failures, discovered,
                   DiscoveryOthers>>

\* lines 250-253: the project listing is exhausted, list_folders is requested
ListSubfolders ==
    /\ call_stack # <<>>
    /\ Top.pc = "projects"
    /\ Top.next > Len(ListedProjects(folder_tree, Top.folder_id))
    /\ call_stack' = [call_stack EXCEPT ![Len(call_stack)].pc = "folders",
                                        ![Len(call_stack)].next = 1]
    /\ UNCHANGED <<folder_tree, folders_listed, branch_failures, discovered,
                   DiscoveryOthers>>

\* lines 253-258: list_folders yields a subfolder; the method calls itself
\* for an ACTIVE one
Recurse ==
    /\ call_stack # <<>>
    /\ Top.pc = "folders"
    /\ Top.next <= Len(ListedFolders(folder_tree, Top.folder_id))
    /\ LET subfolder == ListedFolders(folder_tree, Top.folder_id)[Top.next]
           n == Len(call_stack)
           advanced == [call_stack EXCEPT ![n].next = @ + 1]
       IN IF FolderIsActive(subfolder)
          THEN /\ call_stack' = Append(advanced, Frame(subfolder))
               /\ folders_listed' = Append(folders_listed, subfolder)
          ELSE /\ call_stack' = advanced
               /\ UNCHANGED folders_listed
    /\ UNCHANGED <<folder_tree, branch_failures, discovered, DiscoveryOthers>>

\* line 264 after the loops: the frame returns its list
Return ==
    /\ call_stack # <<>>
    /\ Top.pc = "folders"
    /\ Top.next > Len(ListedFolders(folder_tree, Top.folder_id))
    /\ call_stack' = ReturnTo(call_stack)
    /\ discovered' = IF Len(call_stack) = 1 THEN Top.project_ids ELSE discovered
    /\ UNCHANGED <<folder_tree, folders_listed, branch_failures, DiscoveryOthers>>

\* lines 260-264: a request of the frame (a page of either listing) raises;
\* the handler logs and the frame returns what it has
CatchAndReturn ==
    /\ call_stack # <<>>
    /\ Cardinality(branch_failures) < MaxBranchFailures
    /\ \E e \in {"PermissionDenied", "Exception"} :
          branch_failures' = branch_failures \cup {Top.folder_id}
    /\ call_stack' = ReturnTo(call_stack)
    /\ discovered' = IF Len(call_stack) = 1 THEN Top.project_ids ELSE discovered
    /\ UNCHANGED <<folder_tree, folders_listed, DiscoveryOthers>>

DiscoveryNext ==
    \/ ListProject
    \/ ListSubfolders
    \/ Recurse
    \/ Return
    \/ CatchAndReturn

SpecDiscovery == DiscoveryInit /\ [][DiscoveryNext]_vars

\* one thread runs the recursion and every provider request returns or
\* raises, so a frame that can take a step takes it
SpecDiscoveryFair == SpecDiscovery /\ WF_vars(DiscoveryNext)

(***************************************************************************)
(* SpecLb: one call of LBScanner.resolve_lb_details (lb_scanner.py 85-268), *)
(* followed step by step.  A resource is found in the prefetched context,   *)
(* fetched, or its fetch raises.                                            *)
(***************************************************************************)
LbRules ==
    {r \in [target : ProxyTargets, backend_service : BOOLEAN,
            certificates : 0..MaxCertificates, rules : 0..MaxRoutingRules] :
        /\ (~HasCertificates(r.target) => r.certificates = 0)
        /\ (~HasUrlMap(r.target) => r.rules = 0)
        /\ (r.target # "none" => ~r.backend_service)}

LbInit ==
    /\ ScanIdle
    /\ TaskIdle
    /\ MergeIdle
    /\ ScannerIdle
    /\ DiscoveryIdle
    /\ BackendsIdle
    /\ EntryIdle
    /\ RaceIdle
    /\ CidrIdle
    /\ SecurityIdle
    /\ MachineIdle
    /\ GkeIdle
    /\ ReadIdle
    /\ CredIdle
    /\ lb_rule \in LbRules
    /\ lb_pc = "proxy"
    /\ lb_details = LoadBalancerDetails
    /\ cert_details = <<>>
    /\ backend_service_names = {}
    /\ lb_failed_step = "none"
    /\ lb_raised = "None"

LbOthers == <<scanVars, taskVars, mergeVars, scannerVars, discoveryVars,
              backendsVars, entryVars, raceVars, cidrVars, securityVars,
              machineVars, gkeVars, readVars, credVars>>

FetchOutcomes == {"context", "fetched", "raises"}

\* an exception of the named step reaches the handler of line 265
Caught(step, e) ==
    LET handled == OuterHandler(lb_details, e)
    IN /\ lb_failed_step' = step
       /\ lb_details' = handled.value
       /\ lb_raised' = handled.raised
       /\ lb_pc' = IF handled.raised = "None" THEN "returned" ELSE "raised"

\* lines 95-172: the frontend values are computed, the target proxy is taken
\* from the context or fetched; without a proxy the rule's own
\* backend_service gives one routing rule
ResolveProxy ==
    /\ lb_pc = "proxy"
    /\ IF lb_rule.target = "none"
       THEN /\ lb_details' =
                  IF lb_rule.backend_service
                  THEN [lb_details EXCEPT !.routing_rules =
                           Append(@, [hosts |-> "*", path |-> "/* (Default)",
                                      backend_service |-> <<"svc", 1>>])]
                  ELSE lb_details
            /\ lb_pc' = "certs"
            /\ UNCHANGED <<lb_failed_step, lb_raised>>
       ELSE \E outcome \in FetchOutcomes :
               IF outcome = "raises"
               THEN Caught("proxy", "NotFound")
               ELSE /\ lb_pc' = "certs"
                    /\ UNCHANGED <<lb_details, lb_failed_step, lb_raised>>
    /\ UNCHANGED <<lb_rule, cert_details, backend_service_names, LbOthers>>

\* _resolve_certs 285-307: one certificate of the proxy; a failed fetch is
\* passed over and the certificate is left out
ResolveCert ==
    /\ lb_pc = "certs"
    /\ Len(cert_details) < lb_rule.certificates
    /\ \E outcome \in FetchOutcomes :
          cert_details' = IF outcome = "raises"
                          THEN Append(cert_details, <<"skipped">>)
                          ELSE Append(cert_details, <<"cert", Len(cert_details) + 1>>)
    /\ UNCHANGED <<lb_rule, lb_pc, lb_details, backend_service_names,
                   lb_failed_step, lb_raised, LbOthers>>

ResolvedCerts == SelectSeq(cert_details, LAMBDA c : c # <<"skipped">>)

\* lines 185-191: details.frontend is set
SetFrontend ==
    /\ lb_pc = "certs"
    /\ Len(cert_details) = lb_rule.certificates
    /\ lb_details' = [lb_details EXCEPT !.frontend = LBFrontend(lb_rule, ResolvedCerts)]
    /\ lb_pc' = "url_map"
    /\ UNCHANGED <<lb_rule, cert_details, backend_service_names, lb_failed_step,
                   lb_raised, LbOthers>>

\* lines 194-225: the URL map of the proxy is taken from the context or
\* fetched and its rules are appended
ResolveUrlMap ==
    /\ lb_pc = "url_map"
    /\ IF ~HasUrlMap(lb_rule.target)
       THEN /\ lb_pc' = "clients"
            /\ UNCHANGED <<lb_details, lb_failed_step, lb_raised>>
       ELSE \E outcome \in FetchOutcomes :
               IF outcome = "raises"
               THEN /\ Caught("url_map", "NotFound")
               ELSE /\ lb_details' =
                         [lb_details EXCEPT !.url_map = "url-map",
                                            !.routing_rules = @ \o UrlMapRules(lb_rule.rules)]
                    /\ lb_pc' = "clients"
                    /\ UNCHANGED <<lb_failed_step, lb_raised>>
    /\ UNCHANGED <<lb_rule, cert_details, backend_service_names, LbOthers>>

\* lines 228-231: the distinct backend names and the two clients
CreateBackendClients ==
    /\ lb_pc = "clients"
    /\ \E created \in BOOLEAN :
          IF created
          THEN /\ backend_service_names' =
                      {lb_details.routing_rules[i].backend_service :
                          i \in DOMAIN lb_details.routing_rules}
               /\ lb_pc' = "backends"
               /\ UNCHANGED <<lb_details, lb_failed_step, lb_raised>>
          ELSE /\ Caught("clients", "DefaultCredentialsError")
               /\ UNCHANGED backend_service_names
    /\ UNCHANGED <<lb_rule, cert_details, LbOthers>>

\* lines 233-263: one name of the set; the backend service comes from the
\* context or is fetched, else the backend bucket is fetched, else the name
\* is passed over with a warning
ResolveBackend ==
    /\ lb_pc = "backends"
    /\ \E bs_name \in backend_service_names,
          outcome \in {"context", "service", "bucket", "neither"} :
          /\ backend_service_names' = backend_service_names \ {bs_name}
          /\ lb_details' =
                IF outcome = "neither" THEN lb_details
                ELSE [lb_details EXCEPT !.backends =
                         Append(@, [name |-> bs_name,
                                    type |-> IF outcome = "bucket" THEN "Bucket"
                                             ELSE "Instance Group"])]
    /\ UNCHANGED <<lb_rule, lb_pc, cert_details, lb_failed_step, lb_raised, LbOthers>>

\* line 268 after the backend loop
ReturnDetails ==
    /\ lb_pc = "backends"
    /\ backend_service_names = {}
    /\ lb_pc' = "returned"
    /\ UNCHANGED <<lb_rule, lb_details, cert_details, backend_service_names,
                   lb_failed_step, lb_raised, LbOthers>>

LbNext ==
    \/ ResolveProxy
    \/ ResolveCert
    \/ SetFrontend
    \/ ResolveUrlMap
    \/ CreateBackendClients
    \/ ResolveBackend
    \/ ReturnDetails

SpecLb == LbInit /\ [][LbNext]_vars

(***************************************************************************)
(* SpecBackends: one call of LBScanner.collect_backend_services, listing by *)
(* listing; a listing may raise after any number of its items.              *)
(***************************************************************************)
BackendsInit ==
    /\ ScanIdle
    /\ TaskIdle
    /\ MergeIdle
    /\ ScannerIdle
    /\ DiscoveryIdle
    /\ LbIdle
    /\ EntryIdle
    /\ RaceIdle
    /\ CidrIdle
    /\ SecurityIdle
    /\ MachineIdle
    /\ GkeIdle
    /\ ReadIdle
    /\ CredIdle
    /\ lb_address \in [project_id : BsProjects, region : BsRegions \cup {Global},
                       backend_service : ServiceNames, ip_address : {1}]
    /\ service_to_ips = BuildServiceToIps(lb_address)
    /\ bs_project \in BsProjects
    /\ bs_pc = "global"
    /\ bs_regions = <<>>
    /\ services = <<>>

BackendsOthers == <<scanVars, taskVars, mergeVars, scannerVars,
                    discoveryVars, lbVars, entryVars, raceVars, cidrVars,
                    securityVars, machineVars, gkeVars, readVars, credVars>>

\* lines 319-321: the global listing; an exception ends the call (334-337)
CollectGlobal ==
    /\ bs_pc = "global"
    /\ \E k \in 0..NumServiceNames, raises \in BOOLEAN :
          /\ (~raises => k = NumServiceNames)
          /\ services' = services \o ProcessedServices(k, bs_project, Global, service_to_ips)
          /\ bs_pc' = IF raises THEN "returned" ELSE "regions"
    /\ UNCHANGED <<lb_address, service_to_ips, bs_project, bs_regions, BackendsOthers>>

\* lines 324-327: the two regional clients and the region listing
ListRegions ==
    /\ bs_pc = "regions"
    /\ \E raises \in BOOLEAN :
          IF raises
          THEN bs_pc' = "returned" /\ UNCHANGED bs_regions
          ELSE bs_pc' = "regional" /\ bs_regions' = ListedRegions
    /\ UNCHANGED <<lb_address, service_to_ips, bs_project, services, BackendsOthers>>

\* lines 328-333: the listing of one region; an exception is passed over
CollectRegion ==
    /\ bs_pc = "regional"
    /\ bs_regions # <<>>
    /\ \E k \in 0..NumServiceNames :
          services' = services \o
              ProcessedServices(k, bs_project, Head(bs_regions), service_to_ips)
    /\ bs_regions' = Tail(bs_regions)
    /\ UNCHANGED <<lb_address, service_to_ips, bs_project, bs_pc, BackendsOthers>>

\* line 338
ReturnServices ==
    /\ bs_pc = "regional"
    /\ bs_regions = <<>>
    /\ bs_pc' = "returned"
    /\ UNCHANGED <<lb_address, service_to_ips, bs_project, bs_regions, services,
                   BackendsOthers>>

BackendsNext ==
    \/ CollectGlobal
    \/ ListRegions
    \/ CollectRegion
    \/ ReturnServices

SpecBackends == BackendsInit /\ [][BackendsNext]_vars

(***************************************************************************)
(* SpecEntry: one call of scan_network_topology, scan_folder or             *)
(* scan_project, taken as one step, under every outcome of the provider     *)
(* calls of the per-project scans.                                          *)
(***************************************************************************)
EntryPoints ==
    {"scan_network_topology", "scan_folder", "scan_project", "scan_organization"}

AllOkDiscovery == [folder |-> [f \in Folders |-> "ok"], search |-> "ok"]

EntryInit ==
    /\ ScanIdle
    /\ TaskIdle
    /\ MergeIdle
    /\ ScannerIdle
    /\ DiscoveryIdle
    /\ LbIdle
    /\ BackendsIdle
    /\ RaceIdle
    /\ CidrIdle
    /\ SecurityIdle
    /\ MachineIdle
    /\ GkeIdle
    /\ ReadIdle
    /\ CredIdle
    /\ entry_point \in EntryPoints
    /\ entry_arg \in IF entry_point = "scan_project" THEN Projects ELSE {RootFolder}
    /\ entry_envs \in [Projects -> ScanEnvs]
    /\ entry_result = NoResult

EntryOthers == <<scanVars, taskVars, mergeVars, scannerVars, discoveryVars,
                 lbVars, backendsVars, raceVars, cidrVars, securityVars,
                 machineVars, gkeVars, readVars, credVars>>

CallScanNetworkTopology ==
    /\ entry_point = "scan_network_topology"
    /\ entry_result = NoResult
    /\ entry_result' = scan_network_topology("folder", entry_arg, TRUE, AllOkDiscovery,
                                             entry_envs, [p \in Projects |-> "ok"])
    /\ UNCHANGED <<entry_point, entry_arg, entry_envs, EntryOthers>>

CallScanFolder ==
    /\ entry_point = "scan_folder"
    /\ entry_result = NoResult
    /\ entry_result' = scan_folder(entry_arg, TRUE, AllOkDiscovery, entry_envs)
    /\ UNCHANGED <<entry_point, entry_arg, entry_envs, EntryOthers>>

CallScanProject ==
    /\ entry_point = "scan_project"
    /\ entry_result = NoResult
    /\ entry_result' = scan_project(entry_arg, TRUE, entry_envs)
    /\ UNCHANGED <<entry_point, entry_arg, entry_envs, EntryOthers>>

CallScanOrganization ==
    /\ entry_point = "scan_organization"
    /\ entry_result = NoResult
    /\ entry_result' = scan_organization(entry_arg, TRUE, AllOkDiscovery, entry_envs)
    /\ UNCHANGED <<entry_point, entry_arg, entry_envs, EntryOthers>>

EntryNext ==
    \/ CallScanNetworkTopology
    \/ CallScanFolder
    \/ CallScanProject
    \/ CallScanOrganization

SpecEntry == EntryInit /\ [][EntryNext]_vars

(***************************************************************************)
(* SpecRace: the worker threads of two (or more) run_scan_task calls whose  *)
(* scans have returned, each inside scan_manager.save_scan(scan_id, result) *)
(* (scan_manager.py 69-113), statement by statement.  save_scan takes no    *)
(* lock, so the statements of the threads interleave.                       *)
(***************************************************************************)
\* the store once start_scan and the first save of run_scan_task have run
\* for each of the ids (main.py 147-154, 71-74)
RECURSIVE StartedStore(_, _)
StartedStore(store, ids) ==
    IF ids = <<>> THEN store
    ELSE LET pending == save_scan(store, Head(ids), PendingData(Head(ids)), TRUE)
             running == save_scan(pending, Head(ids),
                                  MarkedRunning(PendingData(Head(ids))), TRUE)
         IN StartedStore(running, Tail(ids))

\* the instants at which the scans built their Topology: no two the same
ScanInstants ==
    {ts \in [NewScans -> 1..MaxScans] : \A a, b \in NewScans : ts[a] = ts[b] => a = b}

EmptyTopology == NetworkTopology("project", <<>>, <<>>, [p \in Projects |-> "ok"])

RaceInit ==
    /\ ScanIdle
    /\ MergeIdle
    /\ ScannerIdle
    /\ DiscoveryIdle
    /\ LbIdle
    /\ BackendsIdle
    /\ EntryIdle
    /\ CidrIdle
    /\ SecurityIdle
    /\ MachineIdle
    /\ GkeIdle
    /\ ReadIdle
    /\ CredIdle
    /\ \E files \in InitialDisks :
          LET store == StartedStore(load_scans(files), SeqOfSet(NewScans))
          IN /\ scans_cache = store.cache
             /\ scans_metadata = store.metadata
             /\ latest_completed_scan_id = store.latest
             /\ disk = store.disk
    /\ disk_failures = 0
    /\ task_pc = [id \in NewScans |-> "scanned"]
    /\ task_args = [id \in NewScans |-> NoArgs]
    /\ task_outcome = [id \in NewScans |-> EmptyTopology]
    /\ clock = MaxScans + 1
    /\ save_pc = [id \in NewScans |-> "cache"]
    /\ \E ts \in ScanInstants :
          save_data = [id \in NewScans |->
                          ResultData(id, model_dump(EmptyTopology, ts[id]))]
    /\ prev_latest = [id \in NewScans |-> NoScan]

RaceOthers == <<scanVars, mergeVars, scannerVars, discoveryVars, lbVars,
                backendsVars, entryVars, cidrVars, securityVars, machineVars,
                gkeVars, readVars, credVars>>

RaceTaskUnchanged == <<task_pc, task_args, task_outcome, clock>>

\* line 73
SetCache(scan_id) ==
    /\ save_pc[scan_id] = "cache"
    /\ scans_cache' = Put(scans_cache, scan_id, save_data[scan_id])
    /\ save_pc' = [save_pc EXCEPT ![scan_id] = "metadata"]
    /\ UNCHANGED <<scans_metadata, latest_completed_scan_id, disk, disk_failures,
                   save_data, prev_latest, RaceTaskUnchanged, RaceOthers>>

\* lines 76-84
SetMetadata(scan_id) ==
    /\ save_pc[scan_id] = "metadata"
    /\ scans_metadata' = Put(scans_metadata, scan_id,
                             Metadata(scan_id, save_data[scan_id]))
    /\ save_pc' = [save_pc EXCEPT ![scan_id] = "check"]
    /\ UNCHANGED <<scans_cache, latest_completed_scan_id, disk, disk_failures,
                   save_data, prev_latest, RaceTaskUnchanged, RaceOthers>>

\* lines 87-88: the status is "completed"; latest_completed_scan_id is read
TestLatest(scan_id) ==
    /\ save_pc[scan_id] = "check"
    /\ save_pc' = [save_pc EXCEPT ![scan_id] =
          IF scans_metadata[scan_id].status # "completed" THEN "write"
          ELSE IF latest_completed_scan_id = NoScan THEN "set"
          ELSE "compare"]
    /\ UNCHANGED <<scans_cache, scans_metadata, latest_completed_scan_id, disk,
                   disk_failures, save_data, prev_latest, RaceTaskUnchanged,
                   RaceOthers>>

\* lines 91-92: latest_completed_scan_id is read again, its metadata looked
\* up and the timestamps compared; a datetime against a string raises
\* TypeError, which the handler of line 112 logs
ComparePrevious(scan_id) ==
    /\ save_pc[scan_id] = "compare"
    /\ LET latest == latest_completed_scan_id
           mine == Metadata(scan_id, save_data[scan_id]).timestamp
       IN /\ prev_latest' = [prev_latest EXCEPT ![scan_id] = latest]
          /\ save_pc' = [save_pc EXCEPT ![scan_id] =
                IF latest \notin DOMAIN scans_metadata THEN "set"
                ELSE IF mine.type = "None" THEN "write"
                ELSE IF ~Comparable(mine, scans_metadata[latest].timestamp) THEN "done"
                ELSE IF mine.t >= scans_metadata[latest].timestamp.t THEN "set"
                ELSE "write"]
    /\ UNCHANGED <<scans_cache, scans_metadata, latest_completed_scan_id, disk,
                   disk_failures, save_data, RaceTaskUnchanged, RaceOthers>>

\* lines 89 and 93
SetLatest(scan_id) ==
    /\ save_pc[scan_id] = "set"
    /\ latest_completed_scan_id' = scan_id
    /\ save_pc' = [save_pc EXCEPT ![scan_id] = "write"]
    /\ UNCHANGED <<scans_cache, scans_metadata, disk, disk_failures, save_data,
                   prev_latest, RaceTaskUnchanged, RaceOthers>>

\* lines 103-106: the file is written, or the write raises
WriteFile(scan_id) ==
    /\ save_pc[scan_id] = "write"
    /\ \E disk_ok \in DiskOutcomes :
          IF disk_ok
          THEN /\ disk' = Put(disk, scan_id, JsonRoundTrip(save_data[scan_id]))
               /\ save_pc' = [save_pc EXCEPT ![scan_id] = "reload"]
               /\ UNCHANGED disk_failures
          ELSE /\ disk_failures' = disk_failures + 1
               /\ save_pc' = [save_pc EXCEPT ![scan_id] = "done"]
               /\ UNCHANGED disk
    /\ UNCHANGED <<scans_cache, scans_metadata, latest_completed_scan_id, save_data,
                   prev_latest, RaceTaskUnchanged, RaceOthers>>

\* line 109
ReloadCache(scan_id) ==
    /\ save_pc[scan_id] = "reload"
    /\ scans_cache' = Put(scans_cache, scan_id, JsonRoundTrip(save_data[scan_id]))
    /\ save_pc' = [save_pc EXCEPT ![scan_id] = "done"]
    /\ UNCHANGED <<scans_metadata, latest_completed_scan_id, disk, disk_failures,
                   save_data, prev_latest, RaceTaskUnchanged, RaceOthers>>

RaceNext ==
    \/ \E scan_id \in NewScans : SetCache(scan_id)
    \/ \E scan_id \in NewScans : SetMetadata(scan_id)
    \/ \E scan_id \in NewScans : TestLatest(scan_id)
    \/ \E scan_id \in NewScans : ComparePrevious(scan_id)
    \/ \E scan_id \in NewScans : SetLatest(scan_id)
    \/ \E scan_id \in NewScans : WriteFile(scan_id)
    \/ \E scan_id \in NewScans : ReloadCache(scan_id)

SpecRace == RaceInit /\ [][RaceNext]_vars

(***************************************************************************)
(* SpecOverlap: one call of check_cidr_overlap on every pair of CIDR        *)
(* strings.                                                                 *)
(***************************************************************************)
OverlapInit ==
    /\ ScanIdle
    /\ TaskIdle
    /\ MergeIdle
    /\ ScannerIdle
    /\ DiscoveryIdle
    /\ LbIdle
    /\ BackendsIdle
    /\ EntryIdle
    /\ RaceIdle
    /\ SecurityIdle
    /\ MachineIdle
    /\ GkeIdle
    /\ ReadIdle
    /\ CredIdle
    /\ cidr_call \in [function : {"check_cidr_overlap"}, cidr1 : CidrStrings,
                      cidr2 : CidrStrings]
    /\ cidr_result = NotCalled

CidrOthers == <<scanVars, taskVars, mergeVars, scannerVars, discoveryVars,
                lbVars, backendsVars, entryVars, raceVars, securityVars,
                machineVars, gkeVars, readVars, credVars>>

CheckCidrOverlap ==
    /\ cidr_call.function = "check_cidr_overlap"
    /\ cidr_result.function = "none"
    /\ cidr_result' = [function |-> "check_cidr_overlap",
                       value |-> check_cidr_overlap(cidr_call.cidr1, cidr_call.cidr2)]
    /\ UNCHANGED <<cidr_call, CidrOthers>>

OverlapNext ==
    \/ CheckCidrOverlap

SpecOverlap == OverlapInit /\ [][OverlapNext]_vars

(***************************************************************************)
(* SpecSuggest: one call of suggest_available_cidrs.  As in its caller      *)
(* (main.py 269-274: base 10.0.0.0/8, prefix length 24, count 5) the base   *)
(* is a wide block, the prefix length is not shorter than the base's and    *)
(* the count is positive.  The topology holds two subnets, the first with   *)
(* at most one secondary range, which may be the empty string; secondary    *)
(* ranges and the second subnet are blocks of the longest prefix.           *)
(***************************************************************************)
\* the ranges a subnet of the topology holds: network-aligned blocks
SubnetRanges ==
    UNION {{Cidr(a, n) : a \in {x \in Addresses : x % Pow2(AddrBits - n) = 0}} :
              n \in 1..AddrBits}

SmallRanges == {r \in SubnetRanges : r.prefixlen = AddrBits}

BaseCidrs == {Cidr(0, 0), Cidr(Pow2(AddrBits - 1), 1)}

TopologySubnets ==
    {<<first, second>> :
        first \in [ip_cidr_range : SubnetRanges,
                   secondary_ip_ranges :
                       {<<>>, <<Unparsable>>} \cup {<<r>> : r \in SmallRanges}],
        second \in [ip_cidr_range : SmallRanges, secondary_ip_ranges : {<<>>}]}

SuggestCalls ==
    {c \in [function : {"suggest_available_cidrs"}, base_cidr : BaseCidrs,
            topology : TopologySubnets, prefix_length : 0..AddrBits,
            count : 1..MaxCount] :
        c.prefix_length >= c.base_cidr.prefixlen}

SuggestInit ==
    /\ ScanIdle
    /\ TaskIdle
    /\ MergeIdle
    /\ ScannerIdle
    /\ DiscoveryIdle
    /\ LbIdle
    /\ BackendsIdle
    /\ EntryIdle
    /\ RaceIdle
    /\ SecurityIdle
    /\ MachineIdle
    /\ GkeIdle
    /\ ReadIdle
    /\ CredIdle
    /\ cidr_call \in SuggestCalls
    /\ cidr_result = NotCalled

SuggestAvailableCidrs ==
    /\ cidr_call.function = "suggest_available_cidrs"
    /\ cidr_result.function = "none"
    /\ cidr_result' = [function |-> "suggest_available_cidrs",
                       value |-> suggest_available_cidrs(cidr_call.base_cidr,
                                    cidr_call.topology, cidr_call.prefix_length,
                                    cidr_call.count)]
    /\ UNCHANGED <<cidr_call, CidrOthers>>

SuggestNext ==
    \/ SuggestAvailableCidrs

SpecSuggest == SuggestInit /\ [][SuggestNext]_vars

(***************************************************************************)
(* SpecSecurity: one call of analyze_security (main.py 456) on a topology   *)
(* whose public addresses are the records _collect_public_ips makes of the  *)
(* signals of the compute API, one signal per IP literal.                   *)
(***************************************************************************)
MaxPublicIps == 2

\* days from utcnow() to the expiry of a certificate; <<>> is no expiry
CertExpiries == {<<>>, <<0 - 1>>, <<10>>, <<45>>, <<90>>}

\* the LoadBalancerDetails of a forwarding rule whose frontend has one
\* certificate (lb_scanner.py 157-186)
DetailsWithCert(name, expiry) ==
    [LoadBalancerDetails EXCEPT
        !.frontend = [protocol |-> "HTTPS", ip_port |-> "ip:port",
                      certificate |-> <<"cert", 1>>,
                      certificate_details |->
                          <<[name |-> <<"cert", name>>, expiry |-> expiry]>>]]

\* the signals _collect_public_ips makes a record of
PublicSignals ==
    {sig \in AddressSignals("address") \cup AddressSignals("global_address") :
        sig.address_type = "EXTERNAL" /\ sig.description = ""}
    \cup {sig \in ForwardingRuleSignals("forwarding_rule")
                  \cup ForwardingRuleSignals("global_forwarding_rule") :
            External(sig) /\ sig.description = "" /\ sig.labels = {}}
    \cup InstanceSignals

\* the PublicIP records of one signal; the details of a forwarding rule are
\* those lb_scanner resolved
PublicIPRecords(sig) ==
    LET rec == Alone(sig, TRUE)[1]
    IN IF rec.details = <<>> THEN {rec}
       ELSE {[rec EXCEPT !.details = DetailsWithCert(rec.resource_name, expiry)] :
                expiry \in CertExpiries}

PublicIPs == UNION {PublicIPRecords(sig) : sig \in PublicSignals}

\* topology.public_ips: the values of a dict keyed by ip_address
PublicIPLists ==
    UNION {{list \in [1..n -> PublicIPs] :
               \A i, j \in 1..n : i # j => list[i].ip_address # list[j].ip_address} :
           n \in 0..MaxPublicIps}

\* topology.firewall_rules
FirewallRule(disabled, action, direction, source_range, allowed) ==
    [name |-> <<"fw", 1>>, project_id |-> 0, disabled |-> disabled,
     action |-> action, direction |-> direction,
     source_ranges |-> {source_range}, allowed |-> allowed]

FirewallLists ==
    {<<>>,
     <<FirewallRule(FALSE, "ALLOW", "INGRESS", "0.0.0.0/0",
                    <<[IPProtocol |-> "all", ports |-> <<>>]>>)>>,
     <<FirewallRule(FALSE, "ALLOW", "INGRESS", "0.0.0.0/0",
                    <<[IPProtocol |-> "tcp", ports |-> <<"22", "80", "3306">>],
                      [IPProtocol |-> "icmp", ports |-> <<>>]>>)>>,
     <<FirewallRule(FALSE, "ALLOW", "INGRESS", "0.0.0.0/0",
                    <<[IPProtocol |-> "udp", ports |-> <<"1-65535">>]>>)>>,
     <<FirewallRule(TRUE, "ALLOW", "INGRESS", "0.0.0.0/0",
                    <<[IPProtocol |-> "all", ports |-> <<>>]>>)>>,
     <<FirewallRule(FALSE, "DENY", "INGRESS", "0.0.0.0/0",
                    <<[IPProtocol |-> "all", ports |-> <<>>]>>)>>,
     <<FirewallRule(FALSE, "ALLOW", "EGRESS", "0.0.0.0/0",
                    <<[IPProtocol |-> "all", ports |-> <<>>]>>)>>,
     <<FirewallRule(FALSE, "ALLOW", "INGRESS", "10.0.0.0/8",
                    <<[IPProtocol |-> "tcp", ports |-> <<"22">>]>>)>>}

\* topology.used_internal_ips: nothing, or the address of an internal load
\* balancer with or without resolved details
InternalIPLists ==
    {<<>>}
    \cup {<<[details |-> details] @@ Alone(sig, FALSE)[1]>> :
            sig \in {s \in ForwardingRuleSignals("forwarding_rule") :
                        Internal(s) /\ s.I_p_address = 1
                        /\ s.description = "" /\ s.labels = {}},
            details \in {<<>>, DetailsWithCert(<<"ilb", 1>>, <<10>>)}}

SecurityTopologies ==
    [firewall_rules : FirewallLists, public_ips : PublicIPLists,
     used_internal_ips : InternalIPLists]

SecurityInit ==
    /\ ScanIdle
    /\ TaskIdle
    /\ MergeIdle
    /\ ScannerIdle
    /\ DiscoveryIdle
    /\ LbIdle
    /\ BackendsIdle
    /\ EntryIdle
    /\ RaceIdle
    /\ CidrIdle
    /\ MachineIdle
    /\ GkeIdle
    /\ ReadIdle
    /\ CredIdle
    /\ sec_pc = "called"
    /\ sec_topology \in SecurityTopologies
    /\ sec_report = <<>>

SecurityOthers == <<scanVars, taskVars, mergeVars, scannerVars,
                    discoveryVars, lbVars, backendsVars, entryVars, raceVars,
                    cidrVars, machineVars, gkeVars, readVars, credVars>>

\* main.py 456: return analyze_security(topology)
AnalyzeSecurity ==
    /\ sec_pc = "called"
    /\ sec_report' = analyze_security(sec_topology)
    /\ sec_pc' = "returned"
    /\ UNCHANGED <<sec_topology, SecurityOthers>>

SecurityNext ==
    \/ AnalyzeSecurity

SpecSecurity == SecurityInit /\ [][SecurityNext]_vars

(***************************************************************************)
(* SpecMachine: scan_instances called for one account after the other.      *)
(* Each call starts with an empty machine_type_cache, lists up to           *)
(* MaxInstances instances and looks the machine type of each up; every      *)
(* request to the provider is logged in mt_requests.                        *)
(***************************************************************************)
MachineInit ==
    /\ ScanIdle
    /\ TaskIdle
    /\ MergeIdle
    /\ ScannerIdle
    /\ DiscoveryIdle
    /\ LbIdle
    /\ BackendsIdle
    /\ EntryIdle
    /\ RaceIdle
    /\ CidrIdle
    /\ SecurityIdle
    /\ GkeIdle
    /\ ReadIdle
    /\ CredIdle
    /\ mt_pc = "idle"
    /\ mt_project = 0
    /\ machine_type_cache = {}
    /\ mt_requests = <<>>
    /\ gce_instances = <<>>

MachineOthers == <<scanVars, taskVars, mergeVars, scannerVars, discoveryVars,
                   lbVars, backendsVars, entryVars, raceVars, cidrVars,
                   securityVars, gkeVars, readVars, credVars>>

\* lines 13-23: scan_instances(project_id) is called for the next account
StartScanInstances ==
    /\ mt_pc \in {"idle", "returned"}
    /\ mt_project < NumProjects
    /\ mt_project' = mt_project + 1
    /\ machine_type_cache' = {}
    /\ gce_instances' = <<>>
    /\ mt_pc' = "listing"
    /\ UNCHANGED <<mt_requests, MachineOthers>>

\* lines 36-82: one instance of the aggregated listing
ListInstance ==
    /\ mt_pc = "listing"
    /\ Len(gce_instances) < MaxInstances
    /\ \E cache_key \in CacheKeys, fetched \in BOOLEAN :
          LET looked == LookupMachineType(machine_type_cache, cache_key, fetched)
          IN /\ (~looked.requested => fetched)
             /\ machine_type_cache' = looked.cache
             /\ mt_requests' =
                    IF looked.requested
                    THEN Append(mt_requests, [project_id |-> mt_project,
                                              key |-> cache_key, fetched |-> fetched])
                    ELSE mt_requests
             /\ gce_instances' = Append(gce_instances,
                    [name |-> <<"vm", Len(gce_instances) + 1>>,
                     project_id |-> mt_project,
                     zone |-> cache_key[1], machine_type |-> cache_key[2],
                     cpu_memory |-> looked.value])
    /\ UNCHANGED <<mt_pc, mt_project, MachineOthers>>

\* line 84: the listing is exhausted
ReturnInstances ==
    /\ mt_pc = "listing"
    /\ mt_pc' = "returned"
    /\ UNCHANGED <<mt_project, machine_type_cache, mt_requests, gce_instances,
                   MachineOthers>>

\* lines 86-88: the listing raises; the instances built so far are dropped
InstancesListingFails ==
    /\ mt_pc = "listing"
    /\ gce_instances' = <<>>
    /\ mt_pc' = "returned"
    /\ UNCHANGED <<mt_project, machine_type_cache, mt_requests, MachineOthers>>

MachineNext ==
    \/ StartScanInstances
    \/ ListInstance
    \/ ReturnInstances
    \/ InstancesListingFails

SpecMachine == MachineInit /\ [][MachineNext]_vars

(***************************************************************************)
(* SpecGke: one call of scan_all for an account.  The clusters are listed,  *)
(* one future per cluster is submitted to the pool, the workers run         *)
(* _scan_cluster_resources, and the futures are joined as they complete.    *)
(***************************************************************************)
GkeInit ==
    /\ ScanIdle
    /\ TaskIdle
    /\ MergeIdle
    /\ ScannerIdle
    /\ DiscoveryIdle
    /\ LbIdle
    /\ BackendsIdle
    /\ EntryIdle
    /\ RaceIdle
    /\ CidrIdle
    /\ SecurityIdle
    /\ MachineIdle
    /\ ReadIdle
    /\ CredIdle
    /\ gke_pc = "scanning"
    /\ \E n \in 0..NumClusters : raw_clusters = [c \in 1..n |-> <<"cluster", c>>]
    /\ gke_futures = [c \in DOMAIN raw_clusters |->
                         [state |-> "submitted", env |-> [credential |-> TRUE,
                                                          fails |-> "none"],
                          res |-> [k \in ReturnedKinds |-> <<>>]]]
    /\ gke_all = [k \in ReturnedKinds |-> <<>>]
    /\ gke_result = <<>>

GkeOthers == <<scanVars, taskVars, mergeVars, scannerVars, discoveryVars,
               lbVars, backendsVars, entryVars, raceVars, cidrVars,
               securityVars, machineVars, readVars, credVars>>

RunningClusters == {c \in DOMAIN gke_futures : gke_futures[c].state = "running"}

\* a free worker of the pool takes a submitted future
StartClusterScan(c) ==
    /\ gke_pc = "scanning"
    /\ gke_futures[c].state = "submitted"
    /\ Cardinality(RunningClusters) < PoolSize(raw_clusters)
    /\ gke_futures' = [gke_futures EXCEPT ![c].state = "running"]
    /\ UNCHANGED <<gke_pc, raw_clusters, gke_all, gke_result, GkeOthers>>

\* the worker returns from _scan_cluster_resources
FinishClusterScan(c) ==
    /\ gke_pc = "scanning"
    /\ gke_futures[c].state = "running"
    /\ \E env \in ClusterEnvs :
          gke_futures' = [gke_futures EXCEPT ![c] =
              [state |-> "done", env |-> env,
               res |-> _scan_cluster_resources(1, raw_clusters[c], env)]]
    /\ UNCHANGED <<gke_pc, raw_clusters, gke_all, gke_result, GkeOthers>>

\* lines 63-75: as_completed yields a finished future
JoinCluster(c) ==
    /\ gke_pc = "scanning"
    /\ gke_futures[c].state = "done"
    /\ gke_all' = ExtendAll(gke_all, gke_futures[c].res)
    /\ gke_futures' = [gke_futures EXCEPT ![c].state = "joined"]
    /\ UNCHANGED <<gke_pc, raw_clusters, gke_result, GkeOthers>>

\* lines 77-86
ReturnAll ==
    /\ gke_pc = "scanning"
    /\ \A c \in DOMAIN gke_futures : gke_futures[c].state = "joined"
    /\ gke_result' = gke_all
    /\ gke_pc' = "returned"
    /\ UNCHANGED <<raw_clusters, gke_futures, gke_all, GkeOthers>>

GkeNext ==
    \/ \E c \in DOMAIN gke_futures : StartClusterScan(c)
    \/ \E c \in DOMAIN gke_futures : FinishClusterScan(c)
    \/ \E c \in DOMAIN gke_futures : JoinCluster(c)
    \/ ReturnAll

SpecGke == GkeInit /\ [][GkeNext]_vars

(***************************************************************************)
(* SpecRead: the API process of SpecTask together with its read endpoints.  *)
(***************************************************************************)
ReadInit ==
    /\ ScanIdle
    /\ MergeIdle
    /\ ScannerIdle
    /\ DiscoveryIdle
    /\ LbIdle
    /\ BackendsIdle
    /\ EntryIdle
    /\ RaceIdle
    /\ CidrIdle
    /\ SecurityIdle
    /\ MachineIdle
    /\ GkeIdle
    /\ CredIdle
    /\ disk \in InitialDisks
    /\ scans_cache = load_scans(disk).cache
    /\ scans_metadata = load_scans(disk).metadata
    /\ latest_completed_scan_id = load_scans(disk).latest
    /\ disk_failures = 0
    /\ task_pc = [id \in NewScans |-> "unborn"]
    /\ task_args = [id \in NewScans |-> NoArgs]
    /\ task_outcome = [id \in NewScans |-> NoResult]
    /\ clock = 1
    /\ read_response = [request |-> "none", body |-> <<>>]

ReadOthers == <<scanVars, mergeVars, scannerVars, discoveryVars, lbVars,
                backendsVars, entryVars, raceVars, cidrVars, securityVars,
                machineVars, gkeVars, credVars>>

\* the variables a read request leaves alone
ReadFrame ==
    <<scans_metadata, latest_completed_scan_id, disk, disk_failures, task_pc,
      task_args, task_outcome, clock, ReadOthers>>

\* main.py 195-208: GET /api/scan/{scan_id}/results
get_scan_results(scan_id) ==
    /\ scans_cache' = CacheAfterGet(Store, scan_id)
    /\ LET scan_data == get_scan(Store, scan_id)
       IN read_response' =
             [request |-> "get_scan_results",
              body |-> IF scan_data = NoData THEN <<404>>
                       ELSE IF scan_data.status # "completed" THEN <<400>>
                       ELSE scan_data.topology]
    /\ UNCHANGED ReadFrame

\* main.py 232-238: GET /api/networks
get_latest_topology ==
    /\ scans_cache' = IF latest_completed_scan_id = NoScan THEN scans_cache
                      ELSE CacheAfterGet(Store, latest_completed_scan_id)
    /\ read_response' = [request |-> "get_latest_topology",
                         body |-> get_latest_completed_scan(Store).topology]
    /\ UNCHANGED ReadFrame

\* a list endpoint: the latest completed scan is fetched, the loops run over
\* its topology dict, the list is returned
ListEndpoint(request, field, with_project_id) ==
    LET latest == get_latest_completed_scan(Store)
        cache1 == IF latest_completed_scan_id = NoScan THEN scans_cache
                  ELSE CacheAfterGet(Store, latest_completed_scan_id)
    IN /\ IF latest = NoData \/ latest.topology = <<>>
          THEN /\ scans_cache' = cache1
               /\ read_response' = [request |-> request, body |-> <<>>]
          ELSE /\ scans_cache' =
                     Put(cache1, latest_completed_scan_id,
                         [latest EXCEPT !.topology =
                             <<AnnotatedTopology(latest.topology[1], field,
                                                 with_project_id)>>])
               /\ read_response' =
                     [request |-> request,
                      body |-> ListedResources(latest.topology[1], field,
                                               with_project_id)]
       /\ UNCHANGED ReadFrame

\* main.py 461-484
list_instances == ListEndpoint("list_instances", "instances", FALSE)

\* main.py 487-507
list_gke_clusters == ListEndpoint("list_gke_clusters", "gke_clusters", FALSE)

\* main.py 510-530
list_storage_buckets == ListEndpoint("list_storage_buckets", "storage_buckets", FALSE)

\* main.py 533-546
list_vpcs == ListEndpoint("list_vpcs", "vpc_networks", TRUE)

ReadNext ==
    \/ \E scan_id \in NewScans : start_scan(scan_id)
    \/ \E scan_id \in NewScans : MarkRunning(scan_id)
    \/ \E scan_id \in NewScans : RunScanner(scan_id)
    \/ \E scan_id \in NewScans : SaveOutcome(scan_id)
    \/ \E scan_id \in NewScans \cup {OldScan} : get_scan_results(scan_id)
    \/ get_latest_topology
    \/ list_instances
    \/ list_gke_clusters
    \/ list_storage_buckets
    \/ list_vpcs

SpecRead == ReadInit /\ [][ReadNext]_vars

(***************************************************************************)
(* SpecStore: the API process of SpecTask whose scans may be deleted and    *)
(* which may be started again on its storage directory.                     *)
(***************************************************************************)
StoreInit ==
    /\ ScanIdle
    /\ MergeIdle
    /\ ScannerIdle
    /\ DiscoveryIdle
    /\ LbIdle
    /\ BackendsIdle
    /\ EntryIdle
    /\ RaceIdle
    /\ CidrIdle
    /\ SecurityIdle
    /\ MachineIdle
    /\ GkeIdle
    /\ ReadIdle
    /\ CredIdle
    /\ disk \in InitialDisks
    /\ scans_cache = load_scans(disk).cache
    /\ scans_metadata = load_scans(disk).metadata
    /\ latest_completed_scan_id = load_scans(disk).latest
    /\ disk_failures = 0
    /\ task_pc = [id \in NewScans |-> "unborn"]
    /\ task_args = [id \in NewScans |-> NoArgs]
    /\ task_outcome = [id \in NewScans |-> NoResult]
    /\ clock = 1

StoreOthers == <<scanVars, mergeVars, scannerVars, discoveryVars, lbVars,
                 backendsVars, entryVars, raceVars, cidrVars, securityVars,
                 machineVars, gkeVars, readVars, credVars>>

\* scan_manager.delete_scan(scan_id) for a scan the manager knows
DeleteScan(scan_id) ==
    /\ scan_id \in DOMAIN scans_metadata \cup DOMAIN disk
    /\ LET store == delete_scan(Store, scan_id)
       IN /\ scans_cache' = store.cache
          /\ scans_metadata' = store.metadata
          /\ latest_completed_scan_id' = store.latest
          /\ disk' = store.disk
    /\ UNCHANGED <<disk_failures, task_pc, task_args, task_outcome, clock, StoreOthers>>

\* main.py 42-45: the process is started again when no task is running;
\* a new ScanManager loads the storage directory
LoadScans ==
    /\ \A id \in NewScans : task_pc[id] \in {"unborn", "done"}
    /\ scans_cache' = load_scans(disk).cache
    /\ scans_metadata' = load_scans(disk).metadata
    /\ latest_completed_scan_id' = load_scans(disk).latest
    /\ UNCHANGED <<disk, disk_failures, task_pc, task_args, task_outcome, clock,
                   StoreOthers>>

StoreSpecNext ==
    \/ \E scan_id \in NewScans : start_scan(scan_id)
    \/ \E scan_id \in NewScans : MarkRunning(scan_id)
    \/ \E scan_id \in NewScans : RunScanner(scan_id)
    \/ \E scan_id \in NewScans : SaveOutcome(scan_id)
    \/ \E scan_id \in NewScans \cup {OldScan} : DeleteScan(scan_id)
    \/ LoadScans

SpecStore == StoreInit /\ [][StoreSpecNext]_vars

(***************************************************************************)
(* SpecCred: the credentials manager under any sequence of calls of its     *)
(* four writing methods.  The endpoints of main.py call them one at a time. *)
(***************************************************************************)
CredInit ==
    /\ ScanIdle
    /\ TaskIdle
    /\ MergeIdle
    /\ ScannerIdle
    /\ DiscoveryIdle
    /\ LbIdle
    /\ BackendsIdle
    /\ EntryIdle
    /\ RaceIdle
    /\ CidrIdle
    /\ SecurityIdle
    /\ MachineIdle
    /\ GkeIdle
    /\ ReadIdle
    /\ cred_meta = <<>>
    /\ cred_files = {}
    /\ cred_next_id = 1
    /\ cred_read_failures = 0
    /\ cred_outcome = [op |-> "none", cred_id |-> 0, raised |-> FALSE]

CredOthers == <<scanVars, taskVars, mergeVars, scannerVars, discoveryVars,
                lbVars, backendsVars, entryVars, raceVars, cidrVars,
                securityVars, machineVars, gkeVars, readVars>>

CredStore == [meta |-> cred_meta, files |-> cred_files]

\* whether reading the metadata file succeeds; at most MaxReadFailures fail
ReadOutcomes == IF cred_read_failures < MaxReadFailures THEN BOOLEAN ELSE {TRUE}

\* the ids a caller may name: the ids handed out so far and one unknown id
CredentialIds == 1..MaxCredentials + 1

\* the store and the outcome after a call
Called(op, cred_id, after, reads, read_ok) ==
    /\ cred_meta' = after.meta
    /\ cred_files' = after.files
    /\ cred_outcome' = [op |-> op, cred_id |-> cred_id, raised |-> after.raised]
    /\ cred_read_failures' = IF reads /\ ~read_ok THEN cred_read_failures + 1
                             ELSE cred_read_failures

AddCredential ==
    /\ cred_next_id <= MaxCredentials
    /\ \E valid \in BOOLEAN, name \in CredentialNames, read_ok \in ReadOutcomes :
          /\ Called("add_credential", cred_next_id,
                    add_credential(CredStore, valid, name, cred_next_id, read_ok),
                    valid, read_ok)
          /\ cred_next_id' = IF valid THEN cred_next_id + 1 ELSE cred_next_id
    /\ UNCHANGED CredOthers

ActivateCredential ==
    /\ \E cred_id \in CredentialIds, read_ok \in ReadOutcomes :
          Called("activate_credential", cred_id,
                 activate_credential(CredStore, cred_id, read_ok), TRUE, read_ok)
    /\ UNCHANGED <<cred_next_id, CredOthers>>

DeleteCredential ==
    /\ \E cred_id \in CredentialIds, read_ok \in ReadOutcomes :
          Called("delete_credential", cred_id,
                 delete_credential(CredStore, cred_id, read_ok), TRUE, read_ok)
    /\ UNCHANGED <<cred_next_id, CredOthers>>

UpdateCredentialName ==
    /\ \E cred_id \in CredentialIds, new_name \in CredentialNames,
          read_ok \in ReadOutcomes :
          Called("update_credential_name", cred_id,
                 update_credential_name(CredStore, cred_id, new_name, read_ok),
                 TRUE, read_ok)
    /\ UNCHANGED <<cred_next_id, CredOthers>>

CredNext ==
    \/ AddCredential
    \/ ActivateCredential
    \/ DeleteCredential
    \/ UpdateCredentialName

SpecCred == CredInit /\ [][CredNext]_vars

(***************************************************************************)
(* Claims about scan_network_topology (checked under SpecScan).             *)
(***************************************************************************)
ScanReturned == scan_pc = "done" /\ result.kind = "topology"

DiscoverySucceeded ==
    /\ \A f \in Folders : discovery_env.folder[f] = "ok"
    /\ discovery_env.search = "ok"

\* the networks and subnets the provider holds for p, as a scan reports them
HeldNetworks(p) == _list_vpc_networks(p, include_shared_vpc, AllOkEnv).value

\* exactly one account's metadata fetch failed and no other provider call did
OnlyOneInfoFetchFailed ==
    /\ DiscoverySucceeded
    /\ Cardinality({i \in DOMAIN futures : futures[i].env.info = "fail"}) = 1
    /\ \A i \in DOMAIN futures :
          futures[i].env = [AllOkEnv EXCEPT !.info = futures[i].env.info]
    /\ \A p \in Projects : collect_env[p] = "ok"

OthersKeepTheirNetworks ==
    \A i \in DOMAIN futures :
        futures[i].env.info = "ok" =>
            \E k \in DOMAIN result.projects :
                /\ result.projects[k].project_id = project_ids[i]
                /\ result.projects[k].vpc_networks = HeldNetworks(project_ids[i])

\* C1 (as stated): a scan over N accounts in which exactly one account's
\* metadata fetch fails and every other provider call succeeds returns a
\* Topology with failed_projects = 1 and total_projects = N, and the other
\* N-1 accounts keep all the networks the provider holds for them.
C1_OneMetadataFailureCounted ==
    (ScanReturned /\ OnlyOneInfoFetchFailed) =>
        /\ result.failed_projects = 1
        /\ result.total_projects = Len(project_ids)
        /\ OthersKeepTheirNetworks

AllAccountsFailed ==
    \A k \in DOMAIN result.projects : NotSuccess(result.projects[k])

FlatListsEmpty ==
    /\ result.public_ips = <<>>
    /\ result.used_internal_ips = <<>>
    /\ result.firewall_rules = <<>>
    /\ result.cloud_armor_policies = <<>>

\* C5: for every valid source kind and every pattern of provider-call
\* failures scan_network_topology returns a Topology and raises nothing, and
\* when every account's scan failed the Topology has failed_projects =
\* total_projects and empty flat resource lists.
C5_ValidSourceNeverRaises ==
    (scan_pc = "done" /\ source_type \in ValidSourceTypes) =>
        /\ result.kind = "topology"
        /\ result.raised = "None"
        /\ result.total_projects = Len(project_ids)
        /\ (AllAccountsFailed =>
               /\ result.failed_projects = result.total_projects
               /\ FlatListsEmpty)

\* witness of C5: a scan of two accounts, both of which failed, has returned
C5_Witness ==
    /\ ScanReturned
    /\ source_type \in ValidSourceTypes
    /\ Len(result.projects) >= 2
    /\ AllAccountsFailed
    /\ result.failed_projects = result.total_projects
    /\ FlatListsEmpty

\* C6 (as stated): an unknown source kind is not absorbed into a Topology;
\* scan_network_topology surfaces a configuration error (the ValueError of
\* line 160) to its caller, and no other kind of error leaves it.
C6_ConfigurationErrorSurfaces ==
    scan_pc = "done" =>
        /\ (source_type \notin ValidSourceTypes =>
               result.kind = "raised" /\ result.raised = "ValueError")
        /\ (result.kind = "raised" => result.raised = "ValueError")

(***************************************************************************)
(* Claims about the scan lifecycle (checked under SpecTask, SpecTaskFair).  *)
(***************************************************************************)
\* the status get_scan reports for a scan id, "None" when it knows none
StatusIn(store, scan_id) == get_scan(store, scan_id).status

\* the status in the file of a scan id
DiskStatusIn(store, scan_id) ==
    IF scan_id \in DOMAIN store.disk THEN store.disk[scan_id].status ELSE "None"

Terminal == {"completed", "failed"}

StatusRank(status) ==
    IF status = "None" THEN 0
    ELSE IF status = "pending" THEN 1
    ELSE IF status = "running" THEN 2
    ELSE 3

\* the arrows of the lifecycle
LifecycleArrow(old, new) ==
    \/ old = new
    \/ old = "None" /\ new = "pending"
    \/ old = "pending" /\ new = "running"
    \/ old = "running" /\ new \in Terminal

\* a file lags behind when a write failed, but never moves backwards and
\* never leaves a terminal status
DiskForward(old, new) ==
    \/ old = new
    \/ old \notin Terminal /\ StatusRank(old) < StatusRank(new)

\* C2: the status of every scan id only moves pending -> running ->
\* completed | failed: start_scan creates it pending, run_scan_task makes it
\* running before it scans, and a terminal status never changes.
C2_StatusOnlyMovesForward ==
    /\ [](\A scan_id \in NewScans :
            /\ task_pc[scan_id] = "unborn" => StatusIn(Store, scan_id) = "None"
            /\ task_pc[scan_id] = "queued" => StatusIn(Store, scan_id) = "pending"
            /\ task_pc[scan_id] \in {"scanning", "scanned"} =>
                   StatusIn(Store, scan_id) = "running"
            /\ task_pc[scan_id] = "done" => StatusIn(Store, scan_id) \in Terminal)
    /\ [][\A scan_id \in NewScans :
            /\ LifecycleArrow(StatusIn(Store, scan_id), StatusIn(StoreNext, scan_id))
            /\ DiskForward(DiskStatusIn(Store, scan_id), DiskStatusIn(StoreNext, scan_id))]_vars

\* witness of C2: one scan went all the way to completed and another to
\* failed, each through pending and running
C2_Witness ==
    \E a, b \in NewScans :
        /\ task_pc[a] = "done" /\ StatusIn(Store, a) = "completed"
        /\ task_pc[b] = "done" /\ StatusIn(Store, b) = "failed"

\* C3: whenever the scan run by run_scan_task raises, the task ends and the
\* store holds under that scan id a record with status failed and the
\* message of the exception, which get_scan returns.
C3_RaisedScanIsStoredFailed ==
    \A scan_id \in NewScans :
        (task_pc[scan_id] = "done" /\ task_outcome[scan_id].kind = "raised") =>
            /\ get_scan(Store, scan_id).scan_id = scan_id
            /\ get_scan(Store, scan_id).status = "failed"
            /\ get_scan(Store, scan_id).error = task_outcome[scan_id].raised
            /\ scans_metadata[scan_id].status = "failed"

\* witness of C3: the scanner raised in a task, the write of the file failed
\* as well, and get_scan returns the failed record
C3_Witness ==
    \E scan_id \in NewScans :
        /\ task_pc[scan_id] = "done"
        /\ task_outcome[scan_id].kind = "raised"
        /\ get_scan(Store, scan_id).status = "failed"
        /\ get_scan(Store, scan_id).error = "DefaultCredentialsError"
        /\ DiskStatusIn(Store, scan_id) # "failed"

\* every provider call of the scan of a task succeeded
TaskScanReturned(scan_id) == task_outcome[scan_id].kind = "topology"

C7_OneRecordPerIp ==
    \A i, j \in DOMAIN ips_map :
        ips_map[i].ip_address = ips_map[j].ip_address => i = j

\* witness of C7: a literal reported by signals of three different kinds has
\* one record in the returned list
C7_Witness ==
    /\ merge_phase = "returned"
    /\ \E ip \in MergeIps :
          /\ Cardinality(implied[ip]) >= 3
          /\ Cardinality({i \in DOMAIN ips_map : ips_map[i].ip_address = ip}) = 1

\* the precedence class of a resource type: LoadBalancer > VM >
\* StaticReservation > Unused
TypeRank(resource_type) ==
    IF resource_type \in {"LoadBalancer", "Global LoadBalancer", "ForwardingRule"} THEN 4
    ELSE IF resource_type = "VM" THEN 3
    ELSE IF resource_type \in {"Unused Address", "Unused Global Address"} THEN 1
    ELSE 2

HighestRank(types) ==
    CHOOSE r \in {TypeRank(t) : t \in types} :
        \A t \in types : TypeRank(t) <= r

\* C8 (as stated): for every set of signals about one IP literal the merged
\* record's resource_type is the highest-precedence type among the types the
\* signals imply, whatever the order in which they arrived.
C8_HighestPrecedenceWins ==
    (merge_public /\ merge_phase = "returned") =>
        \A i \in DOMAIN ips_map :
            TypeRank(ips_map[i].resource_type) =
                HighestRank(implied[ips_map[i].ip_address])

\* what a merge may do to the record a literal already has
KeepsSetFields(old, new) ==
    /\ new.resource_name = old.resource_name
    /\ new.project_id = old.project_id
    /\ new.region = old.region
    /\ old.description # "" => new.description = old.description
    /\ old.labels # {} => new.labels = old.labels
    /\ old.details # <<>> => new.details = old.details
    /\ old.zone # "" => new.zone = old.zone

\* C9 (as stated): when a later signal for a literal that already has a
\* record is merged, every field of the record that is already set keeps its
\* value; the merge only fills unset fields, and resource_type is the only
\* field it may change.
C9_MergeKeepsSetFields ==
    [][merge_public =>
          \A i \in DOMAIN ips_map :
              KeepsSetFields(ips_map[i], MapGet(ips_map', ips_map[i].ip_address))]_vars

(***************************************************************************)
(* Claims about the resource scanners (checked under SpecScanners).         *)
(***************************************************************************)
\* C10 (as stated): a resource scanner called for an account never raises to
\* its caller, and when any provider call it makes has failed, the creation
\* of its client included, it returns an empty list.
C10_ScannersNeverRaise ==
    /\ scanner_pc # "raised"
    /\ (scanner_pc = "returned" /\ scanner_failed) => scanner_results = <<>>

(***************************************************************************)
(* Claims about folder discovery (checked under SpecDiscoveryFair).         *)
(***************************************************************************)
RECURSIVE PathsOfLength(_, _)
PathsOfLength(fan_out, n) ==
    IF n = 0 THEN {<<>>}
    ELSE {Append(f, i) : f \in PathsOfLength(fan_out, n - 1), i \in 1..fan_out}

\* the ACTIVE folders of the tree, root included
TreeFolders(tree) == UNION {PathsOfLength(tree.fan_out, n) : n \in 0..tree.depth}

\* the ACTIVE accounts of the tree
TreeAccounts(tree) == {<<f, k>> : f \in TreeFolders(tree), k \in 1..tree.accounts}

IsPrefix(f, g) == Len(f) <= Len(g) /\ SubSeq(g, 1, Len(f)) = f

NoDuplicates(s) == \A i, j \in DOMAIN s : s[i] = s[j] => i = j

DiscoveryReturned == discovered # NotReturned

\* C11: on a folder tree of any depth and fan-out the recursion ends; no
\* folder is listed twice; without a failure every folder of the tree is
\* listed once and the returned list is exactly the ACTIVE accounts of the
\* tree, each once (none for the empty tree); a failure in the frame of a
\* folder loses only accounts of that folder's subtree
C11_FolderDiscoveryIsExact ==
    /\ <>[]DiscoveryReturned
    /\ [](NoDuplicates(folders_listed))
    /\ [](DiscoveryReturned =>
            /\ NoDuplicates(discovered)
            /\ Range(discovered) \subseteq TreeAccounts(folder_tree)
            /\ \A a \in TreeAccounts(folder_tree) :
                  (\A f \in branch_failures : ~IsPrefix(f, a[1]))
                      => a \in Range(discovered)
            /\ branch_failures = {} =>
                  /\ Range(folders_listed) = TreeFolders(folder_tree)
                  /\ Range(discovered) = TreeAccounts(folder_tree))

\* a tree of depth 2 and fan-out 2 with accounts was walked, one branch
\* failed, and accounts of the other branches were returned
C11_Witness ==
    /\ DiscoveryReturned
    /\ folder_tree.depth = 2 /\ folder_tree.fan_out = 2 /\ folder_tree.accounts = 1
    /\ branch_failures = {<<1>>}
    /\ <<<<2, 1>>, 1>> \in Range(discovered)
    /\ <<<<1, 1>>, 1>> \notin Range(discovered)

(***************************************************************************)
(* Further claims about scan_network_topology (checked under SpecScan).     *)
(***************************************************************************)
\* C12: the ids handed to _scan_projects hold no id twice, for every source
\* kind, and a returned Topology holds at most one Project per project id
C12_DiscoveredIdsAreDistinct ==
    /\ NoDuplicates(project_ids)
    /\ ScanReturned =>
          \A i, j \in DOMAIN result.projects :
              result.projects[i].project_id = result.projects[j].project_id => i = j

(***************************************************************************)
(* Claims about resolve_lb_details (checked under SpecLb).                  *)
(***************************************************************************)
IsPrefixOf(s, t) == Len(s) <= Len(t) /\ SubSeq(t, 1, Len(s)) = s

\* every part the details hold before a step is held after it
DetailsKept ==
    /\ lb_details.frontend # NoFrontend => lb_details'.frontend = lb_details.frontend
    /\ lb_details.url_map # "None" => lb_details'.url_map = lb_details.url_map
    /\ IsPrefixOf(lb_details.routing_rules, lb_details'.routing_rules)
    /\ IsPrefixOf(lb_details.backends, lb_details'.backends)

\* C13: resolve_lb_details never raises; a failing step (proxy, URL map,
\* backend, certificate) leaves in the returned object every part that was
\* set before it: the frontend when the URL map fails, the frontend and the
\* routing rules when the backend clients fail, the backends already
\* resolved when a later backend fails
C13_LbDetailsDegradeGracefully ==
    /\ [](lb_raised = "None" /\ lb_pc # "raised")
    /\ [][DetailsKept]_vars
    /\ [](lb_pc = "returned" =>
            /\ lb_failed_step \in {"url_map", "clients"} =>
                  lb_details.frontend = LBFrontend(lb_rule, ResolvedCerts)
            /\ lb_failed_step = "clients" /\ HasUrlMap(lb_rule.target) =>
                  lb_details.routing_rules = UrlMapRules(lb_rule.rules)
            /\ lb_failed_step = "none" => lb_details.frontend # NoFrontend)

\* the URL map of an HTTPS proxy could not be fetched after a certificate
\* fetch had failed: the call returned the frontend alone
C13_Witness ==
    /\ lb_pc = "returned"
    /\ lb_rule.target = "targetHttpsProxies"
    /\ lb_failed_step = "url_map"
    /\ cert_details = <<<<"skipped">>>>
    /\ lb_details.frontend # NoFrontend
    /\ lb_details.backends = <<>>

(***************************************************************************)
(* Claims about collect_backend_services (checked under SpecBackends).      *)
(***************************************************************************)
RegionOfService(s) == IF s.region = NoRegion THEN Global ELSE s.region

IsTheReferencedService(s) ==
    /\ s.project_id = lb_address.project_id
    /\ RegionOfService(s) = lb_address.region
    /\ s.name = lb_address.backend_service

\* C14: with the association map built from one LoadBalancer address that
\* references service svc in region R of project P, the collected
\* BackendService (P, R, svc) has exactly that address's IP literal in
\* associated_ips, and a BackendService of another project, region or name
\* has none
C14_OnlyTheReferencedServiceIsAssociated ==
    \A i \in DOMAIN services :
        services[i].associated_ips =
            IF IsTheReferencedService(services[i])
            THEN <<lb_address.ip_address>> ELSE <<>>

\* the referenced regional service was collected with the IP, next to the
\* global service and another region's service of the same name
C14_Witness ==
    /\ bs_pc = "returned"
    /\ lb_address.region = <<"r", 1>>
    /\ \E i, j, k \in DOMAIN services :
          /\ IsTheReferencedService(services[i])
          /\ services[i].associated_ips = <<lb_address.ip_address>>
          /\ services[j].name = services[i].name /\ services[j].region = NoRegion
          /\ services[k].name = services[i].name /\ services[k].region = <<"r", 2>>

(***************************************************************************)
(* Claims about the scan entry points (checked under SpecEntry).            *)
(***************************************************************************)
\* C15: in the Topology any entry point returns, total_projects is the
\* number of Project records, total_vpcs the number of networks over all
\* projects, total_subnets the number of subnets over all networks, and
\* failed_projects the number of projects whose status is error or
\* permission_denied
C15_CountersMatchTheRecords ==
    entry_result.kind = "topology" =>
        LET ps == entry_result.projects
        IN /\ entry_result.total_projects = Len(ps)
           /\ entry_result.total_vpcs =
                 SumSeq([i \in DOMAIN ps |-> Len(ps[i].vpc_networks)])
           /\ entry_result.total_subnets =
                 SumSeq([i \in DOMAIN ps |->
                     SumSeq([j \in DOMAIN ps[i].vpc_networks |->
                         Len(ps[i].vpc_networks[j].subnets)])])
           /\ entry_result.failed_projects =
                 Cardinality({i \in DOMAIN ps :
                     ps[i].scan_status \in {"error", "permission_denied"}})

(***************************************************************************)
(* Claims about concurrent saves (checked under SpecRace).                  *)
(***************************************************************************)
SavesFinished == \A scan_id \in NewScans : save_pc[scan_id] = "done"

InstantOf(scan_id) == TimestampOf(save_data[scan_id]).t

\* C16: once the concurrent saves of the completed scans have finished,
\* latest_completed_scan_id designates a completed scan, and if it is one of
\* the scans that were saved, none of them has a later timestamp
C16_LatestPointerSurvivesConcurrentSaves ==
    SavesFinished /\ latest_completed_scan_id # NoScan =>
        /\ latest_completed_scan_id \in DOMAIN scans_metadata
        /\ scans_metadata[latest_completed_scan_id].status = "completed"
        /\ latest_completed_scan_id \in NewScans =>
              \A scan_id \in NewScans :
                  InstantOf(scan_id) <= InstantOf(latest_completed_scan_id)

(***************************************************************************)
(* Claims about cidr_analyzer.py (checked under SpecOverlap, SpecSuggest).  *)
(***************************************************************************)
\* the addresses a valid CIDR string denotes: those that agree with its
\* address on the first prefixlen bits
AddressesOf(cidr) ==
    {a \in Addresses :
        a \div Pow2(AddrBits - cidr.prefixlen) =
            cidr.address \div Pow2(AddrBits - cidr.prefixlen)}

OverlapReturned == cidr_result.function = "check_cidr_overlap"

\* C17: for every pair of valid CIDRs q and s, check_cidr_overlap(q, s) is
\* exact when they denote the same network, contains when q strictly
\* contains s, contained_by when s strictly contains q, partial when they
\* share an address and neither contains the other, and None when they
\* share no address
C17_OverlapTypeIsTheSetRelation ==
    OverlapReturned /\ cidr_call.cidr1.valid /\ cidr_call.cidr2.valid =>
        LET q == AddressesOf(cidr_call.cidr1)
            s == AddressesOf(cidr_call.cidr2)
        IN cidr_result.value =
              IF q = s THEN "exact"
              ELSE IF s \subseteq q THEN "contains"
              ELSE IF q \subseteq s THEN "contained_by"
              ELSE IF q \cap s # {} THEN "partial"
              ELSE "None"

\* a query whose host bits are set strictly contains a subnet
C17_Witness ==
    /\ OverlapReturned
    /\ cidr_call.cidr1 = Cidr(5, 1)
    /\ cidr_call.cidr2 = Cidr(6, 2)
    /\ cidr_result.value = "contains"

SuggestReturned == cidr_result.function = "suggest_available_cidrs"

\* every primary and secondary range of the topology that is a valid CIDR
RangesOfTopology ==
    {r \in Range(ExistingCidrs(cidr_call.topology)) : r.valid}

\* the blocks of the requested prefix length under the base that share no
\* address with a range of the topology
FreeBlocks ==
    {Cidr(a, cidr_call.prefix_length) : a \in
        {x \in AddressesOf(cidr_call.base_cidr) :
            /\ x % Pow2(AddrBits - cidr_call.prefix_length) = 0
            /\ \A r \in RangesOfTopology :
                  AddressesOf(Cidr(x, cidr_call.prefix_length)) \cap AddressesOf(r) = {}}}

\* C18: suggest_available_cidrs returns blocks of the requested prefix
\* length under the base, as many as requested when that many are free (all
\* the free ones otherwise), in ascending numeric order, pairwise without a
\* common address, none sharing an address with a primary or secondary
\* range of a subnet of the topology
C18_SuggestionsAreFreeAndOrdered ==
    SuggestReturned =>
        LET out == cidr_result.value
        IN /\ Range(out) \subseteq FreeBlocks
           /\ Len(out) = IF Cardinality(FreeBlocks) >= cidr_call.count
                         THEN cidr_call.count ELSE Cardinality(FreeBlocks)
           /\ \A i, j \in DOMAIN out :
                 i < j => /\ out[i].address < out[j].address
                          /\ AddressesOf(out[i]) \cap AddressesOf(out[j]) = {}

\* two blocks were asked for and returned although the first block of the
\* base is taken by a secondary range
C18_Witness ==
    /\ SuggestReturned
    /\ cidr_call.count = 2
    /\ Len(cidr_result.value) = 2
    /\ cidr_call.base_cidr = Cidr(0, 0)
    /\ cidr_call.topology[1].secondary_ip_ranges = <<Cidr(0, AddrBits)>>
    /\ cidr_result.value[1].address > 0

(***************************************************************************)
(* Claims about the security report (checked under SpecSecurity).           *)
(***************************************************************************)
SecurityReturned == sec_pc = "returned"

\* the COST issues of the report that name a resource
CostIssuesOf(resource_name) ==
    {k \in DOMAIN sec_report.issues :
        /\ sec_report.issues[k].category = "COST"
        /\ sec_report.issues[k].resource_name = resource_name}

\* a reserved address nothing is attached to: no user link named it and no
\* forwarding rule or instance was merged into its record
Unattached(ip) ==
    /\ ip.status = "RESERVED"
    /\ ip.details = <<>>
    /\ ip.resource_type \in {"Unused Address", "Unused Global Address"}

\* C19: for every public address with status RESERVED and no forwarding rule
\* or VM attached, the report holds exactly one COST issue with that
\* address's resource name, and its severity is LOW; for an address that is
\* in use it holds no COST issue.
C19_ReservedAddressesAreCostIssues ==
    SecurityReturned =>
        \A i \in DOMAIN sec_topology.public_ips :
            LET ip == sec_topology.public_ips[i]
            IN /\ Unattached(ip) =>
                    /\ Cardinality(CostIssuesOf(ip.resource_name)) = 1
                    /\ \A k \in CostIssuesOf(ip.resource_name) :
                           sec_report.issues[k].severity = "LOW"
               /\ ip.status = "IN_USE" => CostIssuesOf(ip.resource_name) = {}

\* a report on a reserved address, an address in use and an issue of
\* another category
C19_Witness ==
    /\ SecurityReturned
    /\ \E i, j \in DOMAIN sec_topology.public_ips :
          /\ Unattached(sec_topology.public_ips[i])
          /\ sec_topology.public_ips[j].status = "IN_USE"
          /\ sec_topology.public_ips[j].details # <<>>
    /\ \E k \in DOMAIN sec_report.issues : sec_report.issues[k].category = "COST"
    /\ \E k \in DOMAIN sec_report.issues : sec_report.issues[k].category # "COST"

(***************************************************************************)
(* Claims about the scan of one account (checked under SpecScan).           *)
(***************************************************************************)
\* C20 (as stated): when the metadata fetch of an account fails, the
\* account's result has status error and holds nothing a resource listing
\* gives: no network, no subnet, no shared-VPC host flag.
C20_FailedMetadataFetchShortCircuits ==
    \A i \in DOMAIN futures :
        (futures[i].state \in {"done", "joined"} /\ futures[i].env.info = "fail") =>
            /\ futures[i].project.scan_status = "error"
            /\ futures[i].project.vpc_networks = <<>>
            /\ ~futures[i].project.is_shared_vpc_host

(***************************************************************************)
(* Claims about the fan-out over the accounts (checked under SpecScan).     *)
(***************************************************************************)
AllJoined ==
    /\ scan_pc \in {"scanning", "done"}
    /\ \A i \in DOMAIN futures : futures[i].state = "joined"

RecordsOf(project_id) ==
    {k \in DOMAIN projects : projects[k].project_id = project_id}

\* C21 (as stated): once every future is joined, whatever the order of
\* completion, the joined list holds exactly one record for every account
\* id that was submitted, and that record has a terminal status (success,
\* error or permission_denied, never pending).
C21_OneTerminalRecordPerAccount ==
    AllJoined =>
        \A i \in DOMAIN project_ids :
            /\ Cardinality(RecordsOf(project_ids[i])) = 1
            /\ \A k \in RecordsOf(project_ids[i]) :
                   projects[k].scan_status \in {"success", "error", "permission_denied"}

\* the accounts whose network listing the provider answered with
\* PermissionDenied
DeniedListings ==
    {i \in DOMAIN futures :
        futures[i].state \in {"done", "joined"}
        /\ futures[i].env.net_list = "PermissionDenied"}

\* C22 (as stated): an account whose network listing is answered with
\* PermissionDenied ends with status permission_denied and an error
\* message; when the scan returns, it returns a Topology that counts every
\* such account in failed_projects.
C22_DeniedListingIsRecorded ==
    /\ \A i \in DeniedListings :
          /\ futures[i].project.scan_status = "permission_denied"
          /\ futures[i].project.error_message # "None"
    /\ (scan_pc = "done" /\ DeniedListings # {}) =>
          /\ result.kind = "topology"
          /\ result.failed_projects >= Cardinality(DeniedListings)

(***************************************************************************)
(* Claims about scan_addresses (checked under SpecScanners).                *)
(***************************************************************************)
AddressesReturned == scanner = "scan_addresses" /\ scanner_pc = "returned"

\* the external static reservations that were listed
StaticIps ==
    {gathered.addresses[k].address :
        k \in {j \in DOMAIN gathered.addresses :
                  gathered.addresses[j].address_type = "EXTERNAL"}}

RulesWith(ip) == {k \in DOMAIN gathered.rules : gathered.rules[k].I_p_address = ip}

\* the first forwarding rule, in listing order, that carries the IP literal
FirstRuleWith(ip) ==
    gathered.rules[CHOOSE k \in RulesWith(ip) : \A m \in RulesWith(ip) : k <= m]

\* C23 (as stated): the record of a static reservation whose IP literal is
\* carried by forwarding rules takes its resource name from the first such
\* rule in listing order.
C23_FirstForwardingRuleIsIndexed ==
    AddressesReturned =>
        \A k \in DOMAIN scanner_results :
            (scanner_results[k].ip_address \in StaticIps
             /\ RulesWith(scanner_results[k].ip_address) # {}) =>
                scanner_results[k].resource_name
                    = FirstRuleWith(scanner_results[k].ip_address).name

\* C24 (as stated): scan_addresses returns at most one record per IP
\* literal.
C24_OneAddressRecordPerIp ==
    AddressesReturned =>
        \A k, m \in DOMAIN scanner_results :
            scanner_results[k].ip_address = scanner_results[m].ip_address => k = m

(***************************************************************************)
(* Claims about scan_instances (checked under SpecMachine).                 *)
(***************************************************************************)
\* the requests one call made for the machine type of a key
RequestsFor(project_id, cache_key) ==
    {k \in DOMAIN mt_requests :
        mt_requests[k].project_id = project_id /\ mt_requests[k].key = cache_key}

InstancesOf(cache_key) ==
    {k \in DOMAIN gce_instances :
        <<gce_instances[k].zone, gce_instances[k].machine_type>> = cache_key}

\* C25 (as stated): within one call the metadata of each (zone, machine
\* type) pair is requested at most once, and all instances of the pair get
\* the same (cpu_count, memory_mb).
C25_MachineTypeRequestedOnce ==
    \A cache_key \in CacheKeys :
        /\ \A project_id \in 1..NumProjects :
               Cardinality(RequestsFor(project_id, cache_key)) <= 1
        /\ \A k, m \in InstancesOf(cache_key) :
               gce_instances[k].cpu_memory = gce_instances[m].cpu_memory

\* C25 (amended): within one call no request for a pair follows a request
\* for it that was answered, so the metadata of a pair is fetched at most
\* once; a request that failed is not cached: its instance gets no
\* (cpu_count, memory_mb) and the next instance of the pair asks again.  Once
\* an instance of the pair has the metadata, every later instance of the
\* pair has the same.  A call finds nothing in the cache that it did not
\* fetch itself.
C25_MachineTypeFetchedOnce ==
    \A cache_key \in CacheKeys :
        /\ \A project_id \in 1..NumProjects :
               \A k, m \in RequestsFor(project_id, cache_key) :
                   mt_requests[k].fetched => m <= k
        /\ \A k, m \in InstancesOf(cache_key) :
               (k < m /\ gce_instances[k].cpu_memory # <<>>) =>
                   gce_instances[m].cpu_memory = gce_instances[k].cpu_memory
        /\ InCache(machine_type_cache, cache_key) =>
               \E k \in RequestsFor(mt_project, cache_key) : mt_requests[k].fetched

\* the second account's call asked again for a pair the first call had
\* fetched, after instances of one pair were served from the cache and
\* after a failed request was repeated
C25_Witness ==
    /\ mt_project = 2
    /\ \E cache_key \in CacheKeys :
          /\ \E k \in RequestsFor(1, cache_key) : mt_requests[k].fetched
          /\ \E k \in RequestsFor(2, cache_key) : mt_requests[k].fetched
          /\ Cardinality(RequestsFor(2, cache_key)) = 2
          /\ Cardinality(InstancesOf(cache_key)) = 3

(***************************************************************************)
(* Claims about the workloads of the clusters (checked under SpecGke).      *)
(***************************************************************************)
\* the workload records scan_all returned, of every kind
ResultRecords == UNION {Range(gke_result[k]) : k \in DOMAIN gke_result}

ClusterFailed(c) ==
    ~gke_futures[c].env.credential \/ gke_futures[c].env.fails # "none"

\* C26 (as stated): at most 10 workload scans run at a time; when scan_all
\* returns, a cluster whose scan failed or that exposes no credential has no
\* workload record in the result, and every workload object of every other
\* cluster (pods, deployments, horizontal scalers, services, ingress, config
\* maps, secrets, volume claims) is present in the result.
C26_ClusterFailuresAreIsolated ==
    /\ Cardinality(RunningClusters) <= 10
    /\ gke_pc = "returned" =>
          \A c \in DOMAIN raw_clusters :
              \A k \in DOMAIN WorkloadKinds :
                  \A rec \in Range(Workloads(1, raw_clusters[c], WorkloadKinds[k])) :
                      rec \in ResultRecords <=> ~ClusterFailed(c)

(***************************************************************************)
(* Claims about the read endpoints (checked under SpecRead).                *)
(***************************************************************************)
\* a dumped topology without the time of its construction
Timeless(topo) == [topo EXCEPT !.scan_timestamp = NoTimestamp]

\* C27 (as stated): whatever read requests have been answered, get_scan of a
\* scan whose task saved a topology returns a topology equal to the one the
\* task saved.
C27_StoredSnapshotIsReadOnly ==
    \A scan_id \in NewScans :
        (task_pc[scan_id] = "done" /\ task_outcome[scan_id].kind = "topology") =>
            /\ get_scan(Store, scan_id).topology # <<>>
            /\ Timeless(get_scan(Store, scan_id).topology[1])
                   = Timeless(model_dump(task_outcome[scan_id], 0))

(***************************************************************************)
(* Claims about the store and its latest pointer (checked under SpecStore). *)
(***************************************************************************)
\* the completed scans the manager lists
StoredCompleted ==
    {id \in DOMAIN scans_metadata : scans_metadata[id].status = "completed"}

LatestReturned == get_latest_completed_scan(Store)

\* get_latest_completed_scan returns nothing exactly when no completed scan
\* is stored, and else the stored completed scan with the greatest timestamp
LatestIsGreatest ==
    /\ LatestReturned = NoData <=> StoredCompleted = {}
    /\ LatestReturned # NoData =>
          /\ LatestReturned.scan_id \in StoredCompleted
          /\ \A id \in StoredCompleted :
                scans_metadata[id].timestamp.t
                    <= scans_metadata[LatestReturned.scan_id].timestamp.t

\* delete_scan(scan_id) leaves a store in which get_scan(scan_id) returns
\* nothing and the metadata do not list scan_id
DeletedIsGone ==
    \A scan_id \in NewScans \cup {OldScan} :
        DeleteScan(scan_id) =>
            /\ get_scan(StoreNext, scan_id) = NoData
            /\ scan_id \notin DOMAIN scans_metadata'

\* C28 (as stated): after any sequence of load_scans, save_scan and
\* delete_scan calls, get_latest_completed_scan returns nothing exactly when
\* no completed scan is stored and otherwise returns the stored completed scan
\* with the greatest timestamp; a deleted scan is no longer returned by
\* get_scan nor listed in the metadata.
C28_LatestIsGreatestStoredCompleted ==
    /\ []LatestIsGreatest
    /\ [][DeletedIsGone]_vars

\* C29 (as stated): scan_organization returns a topology holding the scanned
\* record of every active project of the organization, with the fields
\* filled that scan_folder and scan_project fill: source, projects, and the
\* counts of projects, networks, subnets and failed projects.
C29_OrganizationScanReturnsTopology ==
    (entry_point = "scan_organization" /\ entry_result # NoResult) =>
        entry_result =
            EntryTopology("organization", entry_arg,
                _scan_projects(_list_projects_in_organization(AllOkDiscovery),
                               TRUE, entry_envs))

(***************************************************************************)
(* Claims about the credentials manager (checked under SpecCred).           *)
(***************************************************************************)
ActiveCredentials == {i \in DOMAIN cred_meta : cred_meta[i].is_active}

\* a step in which a call was rejected leaves the stored credentials, their
\* files and so the active one unchanged
RejectedCallChangesNothing ==
    cred_outcome'.raised => (cred_meta' = cred_meta /\ cred_files' = cred_files)

\* a step that adds a credential to an empty store stores it as active
FirstAddedIsActive ==
    (cred_outcome'.op = "add_credential" /\ ~cred_outcome'.raised /\ cred_meta = <<>>) =>
        /\ Len(cred_meta') = 1
        /\ cred_meta'[1].id = cred_outcome'.cred_id
        /\ cred_meta'[1].is_active

\* C30: after any sequence of add_credential, activate_credential,
\* delete_credential and update_credential_name calls at most one stored
\* credential is marked active; the first credential added becomes active;
\* and a rejected call (deleting the active credential, activating or
\* deleting an unknown id) leaves the stored credentials and the active one
\* unchanged.
C30_AtMostOneActiveCredential ==
    /\ [](Cardinality(ActiveCredentials) <= 1)
    /\ [][FirstAddedIsActive /\ RejectedCallChangesNothing]_vars

\* three credentials are stored, the second is the active one after an
\* activation, and the call to delete it has just been rejected
C30_Witness ==
    /\ Len(cred_meta) = 3
    /\ ActiveCredentials = {2}
    /\ cred_outcome = [op |-> "delete_credential", cred_id |-> cred_meta[2].id,
                       raised |-> TRUE]

====
